---------------------------- MODULE Spec2Model ----------------------------
(***************************************************************************)
(* A model of the webhook ingestion service (storage.ts, security.ts,     *)
(* models.ts, metrics.ts, main.ts).                                        *)
(*                                                                         *)
(* Text values are sequences of character codes, so that SQLite's          *)
(* byte-wise ORDER BY, LOWER(), LIKE and the regular expressions of the    *)
(* schema are computed on characters instead of being assumed.  A missing  *)
(* value (SQL NULL, JS null/undefined) is the one-element sequence NULL.   *)
(***************************************************************************)
EXTENDS Integers, Sequences, FiniteSets, TLC

VARIABLES
    messages,        \* the rows of table "messages", in rowid (insertion) order
    clock,           \* what new Date() reads, in milliseconds after the epoch of the model
    calls,           \* the direct calls that changed state so far, each with what it returned
    ret,             \* the most recent direct call of an exported function and its result
    db,              \* storage.ts: the module variable db, the connection initDb opened
    files,           \* what the file system holds at the locations a database URL names
    webhookSecret,   \* config.webhookSecret
    pc,              \* per server process: where its request handler stands
    req,             \* per server process: the request being handled
    rows,            \* per server process: rawRows of a listMessages call in progress
    resp,            \* per server process: the response sent to the last request
    served,          \* the HTTP requests received so far, by all processes
    httpRequests,    \* per server process: metrics.ts httpRequests
    webhookResults,  \* per server process: metrics.ts webhookResults
    latencyBuckets,  \* per server process: metrics.ts latencyBuckets
    latencyCount,    \* per server process: metrics.ts latencyCount
    latencyTotal     \* per server process: metrics.ts latencyTotal

storeVars == <<messages, clock, calls, ret>>
startupVars == <<webhookSecret, db, files>>
httpVars == <<startupVars, pc, req, rows, resp, served>>
metricVars == <<httpRequests, webhookResults, latencyBuckets, latencyCount, latencyTotal>>
vars == <<messages, clock, calls, ret, db, files, webhookSecret, pc, req, rows, resp, served,
          httpRequests, webhookResults, latencyBuckets, latencyCount, latencyTotal>>

(***************************************************************************)
(* Bounds of the model.                                                    *)
(***************************************************************************)
MaxInserts == 3      \* direct insertMessage calls in one behaviour
MaxRequests == 2     \* HTTP requests received in one behaviour of a handler's specification
MaxServed == 3       \* HTTP requests received in one behaviour of Spec
NumProcs == 2        \* server processes sharing one database file
MaxInits == 2        \* direct initDb calls in one behaviour

Procs == 1..NumProcs

(***************************************************************************)
(* Characters and strings.                                                 *)
(***************************************************************************)
NULL == <<-1>>

Range(f) == {f[x] : x \in DOMAIN f}

Min(a, b) == IF a < b THEN a ELSE b
Max(a, b) == IF a > b THEN a ELSE b

IsDigit(c) == c >= 48 /\ c <= 57

\* SQLite's LOWER(): the 26 ASCII upper-case letters only.
LowerChar(c) == IF c >= 65 /\ c <= 90 THEN c + 32 ELSE c

LOWER(s) == IF s = NULL THEN NULL ELSE [i \in 1..Len(s) |-> LowerChar(s[i])]

Concat(a, b) == IF a = NULL \/ b = NULL THEN NULL ELSE a \o b

\* memcmp order of two TEXT values (collation BINARY): a < b.
RECURSIVE TextLess(_, _)
TextLess(a, b) ==
    IF b = <<>> THEN FALSE
    ELSE IF a = <<>> THEN TRUE
    ELSE IF Head(a) # Head(b) THEN Head(a) < Head(b)
    ELSE TextLess(Tail(a), Tail(b))

TextLeq(a, b) == a = b \/ TextLess(a, b)

\* SQLite's LIKE without ESCAPE: '%' is any run of characters, '_' is any one
\* character, every other character matches itself without regard to ASCII case.
RECURSIVE LikeMatch(_, _)
LikeMatch(pat, str) ==
    IF pat = <<>> THEN str = <<>>
    ELSE IF Head(pat) = 37
         THEN LikeMatch(Tail(pat), str)
              \/ (str # <<>> /\ LikeMatch(pat, Tail(str)))
    ELSE IF str = <<>> THEN FALSE
    ELSE IF Head(pat) = 95 THEN LikeMatch(Tail(pat), Tail(str))
    ELSE LowerChar(Head(pat)) = LowerChar(Head(str))
         /\ LikeMatch(Tail(pat), Tail(str))

\* x LIKE y as a WHERE term: NULL (not true) when either side is NULL.
SqlLike(str, pat) == str # NULL /\ pat # NULL /\ LikeMatch(pat, str)

\* sub occurs in s as a run of adjacent characters.
Contains(s, sub) ==
    \E i \in 0..(Len(s) - Len(sub)) : SubSeq(s, i + 1, i + Len(sub)) = sub

\* JavaScript truthiness of an optional string: undefined and "" are falsy.
Truthy(s) == s # NULL /\ s # <<>>

(***************************************************************************)
(* The text values the model draws its inputs from.                        *)
(***************************************************************************)
ID_M1 == <<77, 49>>              \* "M1"
ID_m1 == <<109, 49>>             \* "m1"
ID_m2 == <<109, 50>>             \* "m2"
FROM_10 == <<43, 49, 48>>        \* "+10"
FROM_100 == <<43, 49, 48, 48>>   \* "+100"
FROM_200 == <<43, 50, 48, 48>>   \* "+200"
TO_900 == <<43, 57, 48, 48>>     \* "+900"
TO_901 == <<43, 57, 48, 49>>     \* "+901"
TS_1 == <<50, 48, 50, 53, 45, 48, 49, 45, 49, 53, 84, 49, 48, 58, 48, 48, 58, 48, 48, 90>>
        \* "2025-01-15T10:00:00Z"
TS_2 == <<50, 48, 50, 53, 45, 48, 49, 45, 49, 53, 84, 49, 48, 58, 48, 48, 58, 48, 49, 90>>
        \* "2025-01-15T10:00:01Z"
TXT_Hello == <<72, 101, 108, 108, 111>>   \* "Hello"
TXT_aXb == <<97, 88, 98>>                 \* "aXb"
TXT_50pct == <<53, 48, 37>>               \* "50%"

Msg(id, from, to, ts, text) ==
    [message_id |-> id, from |-> from, to |-> to, ts |-> ts, text |-> text]

\* WebhookMessage values handed to insertMessage: two payloads share "m1" and
\* differ in every other field, "M1" and "m2" tie with others on ts.
Payloads ==
    { Msg(ID_m1, FROM_100, TO_900, TS_2, TXT_Hello),
      Msg(ID_m1, FROM_200, TO_901, TS_1, TXT_aXb),
      Msg(ID_m2, FROM_100, TO_900, TS_1, NULL),
      Msg(ID_m2, FROM_200, TO_900, TS_2, TXT_50pct),
      Msg(ID_M1, FROM_200, TO_901, TS_1, TXT_aXb),
      Msg(ID_M1, FROM_10, TO_900, TS_2, TXT_Hello) }

(***************************************************************************)
(* storage.ts                                                              *)
(***************************************************************************)
UniqueViolation == "UNIQUE constraint failed: messages.message_id"

\* Errors the storage engine may raise on a statement for reasons of its own.
EngineFaults == {"disk I/O error", "database is locked"}

\* new Date().toISOString() at model time t: "2025-01-15T10:00:02.00tZ".
ToISOString(t) ==
    <<50, 48, 50, 53, 45, 48, 49, 45, 49, 53, 84, 49, 48, 58, 48, 48, 58, 48, 50, 46,
      48, 48 + ((t \div 10) % 10), 48 + (t % 10), 90>>

HasId(tbl, id) == \E i \in 1..Len(tbl) : tbl[i].message_id = id

\* The INSERT statement against a table whose message_id is the PRIMARY KEY.
\* fault is "none" or the error the engine raises instead of running it.
SqlInsertNoKey(tbl, row, fault) ==
    IF fault # "none" THEN [err |-> fault, tbl |-> tbl]
    ELSE [err |-> "none", tbl |-> Append(tbl, row)]

SqlInsert(tbl, row, fault) ==
    IF fault # "none" THEN [err |-> fault, tbl |-> tbl]
    ELSE IF HasId(tbl, row.message_id) THEN [err |-> UniqueViolation, tbl |-> tbl]
    ELSE [err |-> "none", tbl |-> Append(tbl, row)]

NewRow(message, now) ==
    [message_id |-> message.message_id, from_msisdn |-> message.from,
     to_msisdn |-> message.to, ts |-> message.ts, text |-> message.text,
     created_at |-> now]

\* insertMessage on an upsert statement (INSERT OR REPLACE) instead of INSERT.
insertMessageReplacing(tbl, message, t, fault) ==
    LET row == NewRow(message, ToISOString(t))
        had == HasId(tbl, message.message_id)
    IN  IF fault # "none"
        THEN [threw |-> TRUE, error |-> fault, created |-> FALSE, dup |-> FALSE, tbl |-> tbl]
        ELSE [threw |-> FALSE, error |-> "", created |-> ~had, dup |-> had,
              tbl |-> IF had
                      THEN [i \in 1..Len(tbl) |->
                              IF tbl[i].message_id = row.message_id THEN row ELSE tbl[i]]
                      ELSE Append(tbl, row)]

\* insertMessage without the catch of the UNIQUE violation: every error of the
\* statement is thrown.
insertMessageRethrowing(tbl, message, t, fault) ==
    LET r == SqlInsert(tbl, NewRow(message, ToISOString(t)), fault)
    IN  IF r.err = "none"
        THEN [threw |-> FALSE, error |-> "", created |-> TRUE, dup |-> FALSE, tbl |-> r.tbl]
        ELSE [threw |-> TRUE, error |-> r.err, created |-> FALSE, dup |-> FALSE, tbl |-> r.tbl]

\* insertMessage(message) on table tbl at time t: what it returns or throws,
\* and the table afterwards.
insertMessage(tbl, message, t, fault) ==
    LET r == SqlInsert(tbl, NewRow(message, ToISOString(t)), fault)
    IN  IF r.err = "none"
        THEN [threw |-> FALSE, error |-> "", created |-> TRUE, dup |-> FALSE, tbl |-> r.tbl]
        ELSE IF r.err = UniqueViolation
        THEN [threw |-> FALSE, error |-> "", created |-> FALSE, dup |-> TRUE, tbl |-> r.tbl]
        ELSE [threw |-> TRUE, error |-> r.err, created |-> FALSE, dup |-> FALSE, tbl |-> r.tbl]

NoRet == [op |-> "none"]

(***************************************************************************)
(* storage.ts: sqlitePathFromUrl, initDb and getDb                         *)
(***************************************************************************)
MEMORY == <<58, 109, 101, 109, 111, 114, 121, 58>>   \* ":memory:"
URL_default == <<115, 113, 108, 105, 116, 101, 58, 47, 47, 47, 47, 100, 97, 116, 97, 47, 97, 112, 112, 46, 100, 98>>   \* "sqlite:////data/app.db"
URL_local == <<115, 113, 108, 105, 116, 101, 58, 46, 47, 100, 97, 116, 97, 47, 97, 112, 112, 46, 100, 98>>   \* "sqlite:./data/app.db"
URL_relative == <<115, 113, 108, 105, 116, 101, 58, 100, 97, 116, 97, 47, 97, 112, 112, 46, 100, 98>>   \* "sqlite:data/app.db"
URL_bare == <<47, 100, 97, 116, 97, 47, 97, 112, 112, 46, 100, 98>>   \* "/data/app.db"
URL_memory == <<115, 113, 108, 105, 116, 101, 58, 58, 109, 101, 109, 111, 114, 121, 58>>   \* "sqlite::memory:"
URL_MEM == <<115, 113, 108, 105, 116, 101, 58, 58, 77, 69, 77>>   \* "sqlite::MEM"
PATH_data == <<47, 100, 97, 116, 97, 47, 97, 112, 112, 46, 100, 98>>   \* "/data/app.db"
PATH_local == <<100, 97, 116, 97, 47, 97, 112, 112, 46, 100, 98>>   \* "data/app.db"
URL_empty == <<>>

StartsWith(s, prefix) == Len(s) >= Len(prefix) /\ SubSeq(s, 1, Len(prefix)) = prefix

EndsWith(s, suffix) ==
    Len(s) >= Len(suffix) /\ SubSeq(s, Len(s) - Len(suffix) + 1, Len(s)) = suffix

\* /^[^/\\]+\/.*/ : one or more characters other than '/' and '\', then a '/'.
RelativeWithDir(s) ==
    \E i \in 2..Len(s) : s[i] = 47 /\ \A j \in 1..(i - 1) : s[j] \notin {47, 92}

\* replace(/^\/+/u, "/"): a run of leading slashes becomes one slash.
RECURSIVE StripSlashes(_)
StripSlashes(s) == IF s # <<>> /\ Head(s) = 47 THEN StripSlashes(Tail(s)) ELSE s

CollapseSlashes(s) == IF s # <<>> /\ Head(s) = 47 THEN <<47>> \o StripSlashes(s) ELSE s

sqlitePathFromUrl(url) ==
    IF url = <<>> THEN MEMORY
    ELSE IF \/ EndsWith(LOWER(url), <<58, 109, 101, 109, 111, 114, 121>>) \/ EndsWith(LOWER(url), <<58, 109, 101, 109>>)
            \/ Contains(url, <<58, 58, 109, 101, 109, 111, 114, 121>>) \/ Contains(url, <<58, 109, 101, 109, 111, 114, 121, 58>>)
    THEN MEMORY
    ELSE IF StartsWith(url, <<115, 113, 108, 105, 116, 101, 58>>)
    THEN LET stripped == SubSeq(url, Len(<<115, 113, 108, 105, 116, 101, 58>>) + 1, Len(url))
         IN  IF StartsWith(stripped, <<46, 47>>) \/ RelativeWithDir(stripped)
             THEN stripped
             ELSE CollapseSlashes(stripped)
    ELSE url

\* The file a path names from the working directory: "./x" and "x" are one file.
FileOf(dbPath) == IF StartsWith(dbPath, <<46, 47>>) THEN SubSeq(dbPath, 3, Len(dbPath)) ELSE dbPath

Locations == {PATH_data, PATH_local}

\* What a location holds: no parent directory ("nodir"), a directory without
\* the file ("absent"), a place that cannot be created or opened
\* ("unopenable"), a file that is not a database ("notadb"), or a database.
Database(tables, tbl) == [kind |-> "database", tables |-> tables, rows |-> tbl]
EmptyDatabase == Database({}, <<>>)

\* let db: Database | null = null
Unopened == [open |-> FALSE]

Handle(filename, content) ==
    [open |-> TRUE, filename |-> filename,
     tables |-> IF content.kind = "database" THEN content.tables ELSE {}]

\* Every statement commits as it runs: the rows written through a connection
\* to a file are in that file.
Flush(handle, fs, tbl) ==
    IF handle.open /\ handle.filename # MEMORY
       /\ fs[FileOf(handle.filename)].kind = "database"
    THEN [fs EXCEPT ![FileOf(handle.filename)] = Database(handle.tables, tbl)]
    ELSE fs

\* fs.mkdirSync(dir, { recursive: true }) for the parent directory of dbPath.
Mkdir(fs, dbPath) ==
    IF fs[FileOf(dbPath)].kind = "nodir"
    THEN [fs EXCEPT ![FileOf(dbPath)] = [kind |-> "absent"]]
    ELSE fs

\* new Database(filename): SQLite opens or creates the file and reads nothing
\* of it before the first statement.
NewDatabase(fs, filename) ==
    IF filename = MEMORY
    THEN [error |-> "none", fs |-> fs, content |-> EmptyDatabase]
    ELSE LET f == FileOf(filename)
         IN  IF fs[f].kind \in {"nodir", "unopenable"}
             THEN [error |-> "unable to open database file", fs |-> fs,
                   content |-> fs[f]]
             ELSE IF fs[f].kind = "absent"
             THEN [error |-> "none", fs |-> [fs EXCEPT ![f] = EmptyDatabase],
                   content |-> EmptyDatabase]
             ELSE [error |-> "none", fs |-> fs, content |-> fs[f]]

\* CREATE TABLE messages without IF NOT EXISTS, after dropping the table.
CreateTableAnew(content, fault) ==
    IF fault # "none" THEN [err |-> fault, content |-> content]
    ELSE IF content.kind # "database"
    THEN [err |-> "file is not a database", content |-> content]
    ELSE [err |-> "none", content |-> Database(content.tables \cup {"messages"}, <<>>)]

\* CREATE TABLE IF NOT EXISTS messages (...)
CreateTable(content, fault) ==
    IF fault # "none" THEN [err |-> fault, content |-> content]
    ELSE IF content.kind # "database"
    THEN [err |-> "file is not a database", content |-> content]
    ELSE [err |-> "none",
          content |-> Database(content.tables \cup {"messages"}, content.rows)]

FallbackLog == "Unable to open database file, falling back to in-memory DB:"

\* initDb(databaseUrl) when the module holds handle, the file system is fs and
\* the open database has the rows tbl; fault is what CREATE TABLE meets in the
\* engine.  The statement runs outside every try: its error leaves initDb
\* after db is assigned.
initDb(handle, fs, tbl, databaseUrl, fault) ==
    LET dbPath == sqlitePathFromUrl(databaseUrl)
        kept == Flush(handle, fs, tbl)
        made == IF dbPath = MEMORY THEN kept ELSE Mkdir(kept, dbPath)
        first == NewDatabase(made, dbPath)
        fellBack == first.error # "none"
        opened == IF fellBack THEN NewDatabase(made, MEMORY) ELSE first
        filename == IF fellBack THEN MEMORY ELSE dbPath
        created == CreateTable(opened.content, fault)
        after == IF filename # MEMORY /\ created.content.kind = "database"
                 THEN [opened.fs EXCEPT ![FileOf(filename)] = created.content]
                 ELSE opened.fs
    IN  [threw |-> created.err # "none",
         error |-> IF created.err # "none" THEN created.err ELSE "",
         db |-> Handle(filename, created.content),
         files |-> after,
         tbl |-> IF created.content.kind = "database" THEN created.content.rows ELSE <<>>,
         dbPath |-> dbPath,
         openedAs |-> filename,
         logged |-> (IF fellBack THEN <<FallbackLog>> ELSE <<>>)
                    \o (IF created.err = "none" THEN <<"Database initialized:">> ELSE <<>>)]

\* getDb()
getDb(handle) ==
    IF ~handle.open
    THEN [threw |-> TRUE, error |-> "Database not initialized"]
    ELSE [threw |-> FALSE, error |-> ""]

(***************************************************************************)
(* security.ts                                                             *)
(***************************************************************************)
BODY_m1a == "{\"message_id\":\"m1\",\"from\":\"+100\",\"to\":\"+900\",\"ts\":\"2025-01-15T10:00:01Z\",\"text\":\"Hello\"}"
BODY_m1b == "{\"message_id\":\"m1\",\"from\":\"+200\",\"to\":\"+901\",\"ts\":\"2025-01-15T10:00:00Z\",\"text\":\"aXb\"}"
BODY_m2 == "{\"message_id\":\"m2\",\"from\":\"+100\",\"to\":\"+900\",\"ts\":\"2025-01-15T10:00:00Z\"}"
BODY_badfrom == "{\"message_id\":\"m2\",\"from\":\"100\",\"to\":\"+900\",\"ts\":\"2025-01-15T10:00:00Z\"}"
BODY_cut == "{\"message_id\":\"m1\""
BODY_abc == "abc"

SECRET_secret == <<115, 101, 99, 114, 101, 116>>   \* "secret"
SECRET_test == <<116, 101, 115, 116, 115, 101, 99, 114, 101, 116>>   \* "testsecret"

\* createHmac("sha256", secret).update(body).digest("hex"), tabulated for the
\* secrets and bodies of the model (the values Node's crypto computes).
computeHmac(secret, body) ==
    CASE secret = SECRET_secret /\ body = BODY_m1a ->   \* 0cc5e2dc6190c8da3cce1bd33dad34b5b6ccac936fa9faa7a7a3428a6b41a8be
          <<48, 99, 99, 53, 101, 50, 100, 99, 54, 49, 57, 48, 99, 56, 100, 97, 51, 99, 99,
          101, 49, 98, 100, 51, 51, 100, 97, 100, 51, 52, 98, 53, 98, 54, 99, 99, 97, 99,
          57, 51, 54, 102, 97, 57, 102, 97, 97, 55, 97, 55, 97, 51, 52, 50, 56, 97, 54, 98,
          52, 49, 97, 56, 98, 101>>
      [] secret = SECRET_secret /\ body = BODY_m1b ->   \* 125f09ec266abfe089429e24f54ff7112293f92e1b5e2ac2564f329435609174
          <<49, 50, 53, 102, 48, 57, 101, 99, 50, 54, 54, 97, 98, 102, 101, 48, 56, 57, 52,
          50, 57, 101, 50, 52, 102, 53, 52, 102, 102, 55, 49, 49, 50, 50, 57, 51, 102, 57,
          50, 101, 49, 98, 53, 101, 50, 97, 99, 50, 53, 54, 52, 102, 51, 50, 57, 52, 51,
          53, 54, 48, 57, 49, 55, 52>>
      [] secret = SECRET_secret /\ body = BODY_m2 ->   \* a059b894f300d8ad78f4116eacee79eb4e07a4e03ed0ca5e1c2d6ff3af95c6b2
          <<97, 48, 53, 57, 98, 56, 57, 52, 102, 51, 48, 48, 100, 56, 97, 100, 55, 56, 102,
          52, 49, 49, 54, 101, 97, 99, 101, 101, 55, 57, 101, 98, 52, 101, 48, 55, 97, 52,
          101, 48, 51, 101, 100, 48, 99, 97, 53, 101, 49, 99, 50, 100, 54, 102, 102, 51,
          97, 102, 57, 53, 99, 54, 98, 50>>
      [] secret = SECRET_secret /\ body = BODY_badfrom ->   \* 9e910bb86d6b943daeddd3d51b8460078399e5195cef236ec76238a2b1565436
          <<57, 101, 57, 49, 48, 98, 98, 56, 54, 100, 54, 98, 57, 52, 51, 100, 97, 101,
          100, 100, 100, 51, 100, 53, 49, 98, 56, 52, 54, 48, 48, 55, 56, 51, 57, 57, 101,
          53, 49, 57, 53, 99, 101, 102, 50, 51, 54, 101, 99, 55, 54, 50, 51, 56, 97, 50,
          98, 49, 53, 54, 53, 52, 51, 54>>
      [] secret = SECRET_secret /\ body = BODY_cut ->   \* 325b105edd32a3df44b6628bf7f279c2b31a8581ffe883182b03ffa4c3d0f349
          <<51, 50, 53, 98, 49, 48, 53, 101, 100, 100, 51, 50, 97, 51, 100, 102, 52, 52,
          98, 54, 54, 50, 56, 98, 102, 55, 102, 50, 55, 57, 99, 50, 98, 51, 49, 97, 56, 53,
          56, 49, 102, 102, 101, 56, 56, 51, 49, 56, 50, 98, 48, 51, 102, 102, 97, 52, 99,
          51, 100, 48, 102, 51, 52, 57>>
      [] secret = SECRET_secret /\ body = BODY_abc ->   \* 9946dad4e00e913fc8be8e5d3f7e110a4a9e832f83fb09c345285d78638d8a0e
          <<57, 57, 52, 54, 100, 97, 100, 52, 101, 48, 48, 101, 57, 49, 51, 102, 99, 56,
          98, 101, 56, 101, 53, 100, 51, 102, 55, 101, 49, 49, 48, 97, 52, 97, 57, 101, 56,
          51, 50, 102, 56, 51, 102, 98, 48, 57, 99, 51, 52, 53, 50, 56, 53, 100, 55, 56,
          54, 51, 56, 100, 56, 97, 48, 101>>
      [] secret = SECRET_test /\ body = BODY_m1a ->   \* 279ded23b4ab3ee9a42ddba2461927048bee5a30cb25ca7b3139223067cc5dde
          <<50, 55, 57, 100, 101, 100, 50, 51, 98, 52, 97, 98, 51, 101, 101, 57, 97, 52,
          50, 100, 100, 98, 97, 50, 52, 54, 49, 57, 50, 55, 48, 52, 56, 98, 101, 101, 53,
          97, 51, 48, 99, 98, 50, 53, 99, 97, 55, 98, 51, 49, 51, 57, 50, 50, 51, 48, 54,
          55, 99, 99, 53, 100, 100, 101>>
      [] secret = SECRET_test /\ body = BODY_m1b ->   \* 5179ba4bff955eca009cd3841fe488a8c0f7eb1e69c205b673d64251bad62053
          <<53, 49, 55, 57, 98, 97, 52, 98, 102, 102, 57, 53, 53, 101, 99, 97, 48, 48, 57,
          99, 100, 51, 56, 52, 49, 102, 101, 52, 56, 56, 97, 56, 99, 48, 102, 55, 101, 98,
          49, 101, 54, 57, 99, 50, 48, 53, 98, 54, 55, 51, 100, 54, 52, 50, 53, 49, 98, 97,
          100, 54, 50, 48, 53, 51>>
      [] secret = SECRET_test /\ body = BODY_m2 ->   \* 09c591833ec3cafa956d6408a41e179ada5a6a307175fd08b5c8e245831dffb0
          <<48, 57, 99, 53, 57, 49, 56, 51, 51, 101, 99, 51, 99, 97, 102, 97, 57, 53, 54,
          100, 54, 52, 48, 56, 97, 52, 49, 101, 49, 55, 57, 97, 100, 97, 53, 97, 54, 97,
          51, 48, 55, 49, 55, 53, 102, 100, 48, 56, 98, 53, 99, 56, 101, 50, 52, 53, 56,
          51, 49, 100, 102, 102, 98, 48>>
      [] secret = SECRET_test /\ body = BODY_badfrom ->   \* 7509c486a14e3976b03784c28604a1d4d33ac134476e8be1e8bf41c31dabea8d
          <<55, 53, 48, 57, 99, 52, 56, 54, 97, 49, 52, 101, 51, 57, 55, 54, 98, 48, 51,
          55, 56, 52, 99, 50, 56, 54, 48, 52, 97, 49, 100, 52, 100, 51, 51, 97, 99, 49, 51,
          52, 52, 55, 54, 101, 56, 98, 101, 49, 101, 56, 98, 102, 52, 49, 99, 51, 49, 100,
          97, 98, 101, 97, 56, 100>>
      [] secret = SECRET_test /\ body = BODY_cut ->   \* f0f1a57054fcb056875b241f8ce977eac8f9d5e52ae30203dd71e602f30ea430
          <<102, 48, 102, 49, 97, 53, 55, 48, 53, 52, 102, 99, 98, 48, 53, 54, 56, 55, 53,
          98, 50, 52, 49, 102, 56, 99, 101, 57, 55, 55, 101, 97, 99, 56, 102, 57, 100, 53,
          101, 53, 50, 97, 101, 51, 48, 50, 48, 51, 100, 100, 55, 49, 101, 54, 48, 50, 102,
          51, 48, 101, 97, 52, 51, 48>>
      [] secret = SECRET_test /\ body = BODY_abc ->   \* c40b3c8c5184ab305fec230dd366b20800a0e3309ce4eac8b048f8ee9cf0ac45
          <<99, 52, 48, 98, 51, 99, 56, 99, 53, 49, 56, 52, 97, 98, 51, 48, 53, 102, 101,
          99, 50, 51, 48, 100, 100, 51, 54, 54, 98, 50, 48, 56, 48, 48, 97, 48, 101, 51,
          51, 48, 57, 99, 101, 52, 101, 97, 99, 56, 98, 48, 52, 56, 102, 56, 101, 101, 57,
          99, 102, 48, 97, 99, 52, 53>>

\* Bitwise ^ and | of two character codes, bit by bit from the lowest.
RECURSIVE BitXor(_, _)
BitXor(x, y) ==
    IF x = 0 THEN y
    ELSE IF y = 0 THEN x
    ELSE (((x % 2) + (y % 2)) % 2) + 2 * BitXor(x \div 2, y \div 2)

RECURSIVE BitOr(_, _)
BitOr(x, y) ==
    IF x = 0 THEN y
    ELSE IF y = 0 THEN x
    ELSE (IF x % 2 = 1 \/ y % 2 = 1 THEN 1 ELSE 0) + 2 * BitOr(x \div 2, y \div 2)

\* The loop of timingSafeEqualHex over positions lo..hi: the | of every
\* a.charCodeAt(i) ^ b.charCodeAt(i), accumulated by halves (| is associative).
RECURSIVE Mismatch(_, _, _, _)
Mismatch(a, b, lo, hi) ==
    IF lo > hi THEN 0
    ELSE IF lo = hi THEN BitOr(0, BitXor(a[lo], b[lo]))
    ELSE LET mid == (lo + hi) \div 2
         IN  BitOr(Mismatch(a, b, lo, mid), Mismatch(a, b, mid + 1, hi))

\* The comparison without its length test, over the shorter of the two.
timingSafeEqualPrefix(a, b) == Mismatch(a, b, 1, Min(Len(a), Len(b))) = 0

timingSafeEqualHex(a, b) ==
    IF Len(a) # Len(b) THEN FALSE
    ELSE Mismatch(a, b, 1, Len(a)) = 0

isValidSignature(provided, secret, rawBody) ==
    IF ~Truthy(secret) \/ ~Truthy(provided) THEN FALSE
    ELSE timingSafeEqualHex(computeHmac(secret, rawBody), provided)

\* Signature header values: for each digest, the digest itself, the digest with
\* its first or its last character changed, cut by one and longer by one.
SigBodies == {BODY_abc, BODY_m1a, BODY_m2}
SigSecrets == {SECRET_secret, SECRET_test}
DEADBEEF == <<100, 101, 97, 100, 98, 101, 101, 102>>   \* "deadbeef"

OtherHex(c) == IF c = 48 THEN 49 ELSE 48

Variants(d) ==
    { d,
      [d EXCEPT ![1] = OtherHex(@)],
      [d EXCEPT ![Len(d)] = OtherHex(@)],
      SubSeq(d, 1, Len(d) - 1),
      d \o <<48>> }

Provided ==
    {NULL, <<>>, DEADBEEF}
    \cup UNION {Variants(computeHmac(k, b)) : k \in SigSecrets, b \in SigBodies}

\* isValidSignature reads and changes no state: every call is a first call.
SigCall(provided, secret, rawBody) ==
    /\ ret.op # "isValidSignature"
    /\ ret' = [op |-> "isValidSignature", provided |-> provided, secret |-> secret,
               rawBody |-> rawBody,
               result |-> isValidSignature(provided, secret, rawBody)]
    /\ UNCHANGED <<messages, clock, calls, httpVars, metricVars>>


(***************************************************************************)
(* JavaScript numbers, in tenths: x10 = 15 is 1.5.  NaN is its own value.  *)
(***************************************************************************)
Num(n) == [nan |-> FALSE, x10 |-> 10 * n]
NaN == [nan |-> TRUE, x10 |-> 0]
IsInteger(n) == ~n.nan /\ n.x10 % 10 = 0

\* The WHERE terms listMessages pushes, in order, for the filters it was given.
Clauses(filters) ==
    (IF Truthy(filters.from) THEN <<"from_msisdn = ?">> ELSE <<>>)
    \o (IF Truthy(filters.since) THEN <<"ts >= ?">> ELSE <<>>)
    \o (IF Truthy(filters.q) THEN <<"LOWER(text) LIKE '%' || LOWER(?) || '%'">> ELSE <<>>)

\* LOWER(text) LIKE '%' || LOWER(?) || '%'
TextLikeQ(text, q) == SqlLike(LOWER(text), Concat(Concat(<<37>>, LOWER(q)), <<37>>))

ClauseHolds(c, r, filters) ==
    IF c = "from_msisdn = ?" THEN r.from_msisdn = filters.from
    ELSE IF c = "ts >= ?" THEN TextLeq(filters.since, r.ts)
    ELSE TextLikeQ(r.text, filters.q)

\* clauses.join(" OR ") in place of " AND ".
WhereAny(r, filters) ==
    LET cs == Clauses(filters)
    IN  cs = <<>> \/ \E k \in 1..Len(cs) : ClauseHolds(cs[k], r, filters)

\* The WHERE of both statements: clauses.join(" AND "), or no WHERE at all.
Where(r, filters) ==
    LET cs == Clauses(filters)
    IN  \A k \in 1..Len(cs) : ClauseHolds(cs[k], r, filters)

\* ORDER BY ts ASC, message_id ASC: a sorts before b.
RowBefore(a, b) ==
    \/ TextLess(a.ts, b.ts)
    \/ a.ts = b.ts /\ TextLess(a.message_id, b.message_id)

RECURSIVE InsertSorted(_, _)
InsertSorted(r, sorted) ==
    IF sorted = <<>> THEN <<r>>
    ELSE IF RowBefore(r, Head(sorted)) THEN <<r>> \o sorted
    ELSE <<Head(sorted)>> \o InsertSorted(r, Tail(sorted))

\* The result without an ORDER BY: rowid order.
OrderByNothing(tbl) == tbl

RECURSIVE OrderBy(_)
OrderBy(tbl) ==
    IF tbl = <<>> THEN <<>> ELSE InsertSorted(Head(tbl), OrderBy(Tail(tbl)))

\* LIMIT lim OFFSET off on integers: a negative LIMIT is no limit, a negative
\* OFFSET is 0.
LimitOffset(s, lim, off) ==
    LET o == Max(off, 0)
        last == IF lim < 0 THEN Len(s) ELSE Min(Len(s), o + lim)
    IN  SubSeq(s, o + 1, last)

\* The row statement of listMessages: SELECT ... WHERE ... ORDER BY ... LIMIT ? OFFSET ?.
\* A LIMIT or OFFSET bound to a number that is no integer is SQLite's
\* "datatype mismatch".
SelectRows(tbl, filters) ==
    IF ~IsInteger(filters.limit) \/ ~IsInteger(filters.offset)
    THEN [err |-> "datatype mismatch", rows |-> <<>>]
    ELSE [err |-> "none",
          rows |-> LimitOffset(OrderBy(SelectSeq(tbl, LAMBDA r : Where(r, filters))),
                               filters.limit.x10 \div 10, filters.offset.x10 \div 10)]

\* The count statement of listMessages: SELECT COUNT(*) ... WHERE ...
CountRows(tbl, filters) == Len(SelectSeq(tbl, LAMBDA r : Where(r, filters)))

\* rawRows.map(...): a stored row as listMessages returns it.
StoredMessage(r) ==
    [message_id |-> r.message_id, from |-> r.from_msisdn, to |-> r.to_msisdn,
     ts |-> r.ts, text |-> r.text, created_at |-> r.created_at]

MapRows(rs) == [i \in 1..Len(rs) |-> StoredMessage(rs[i])]

\* listMessages(filters) with both statements run on the same table.
listMessages(tbl, filters) ==
    LET sel == SelectRows(tbl, filters)
    IN  IF sel.err # "none"
        THEN [threw |-> TRUE, error |-> sel.err, data |-> <<>>, total |-> 0]
        ELSE [threw |-> FALSE, error |-> "", data |-> MapRows(sel.rows),
              total |-> CountRows(tbl, filters)]

Filters(limit, offset, from, since, q) ==
    [limit |-> limit, offset |-> offset, from |-> from, since |-> since, q |-> q]

Q_hello == <<104, 101, 108, 108, 111>>   \* "hello"
Q_pct == <<37>>                          \* "%"
Q_a_b == <<97, 95, 98>>                  \* "a_b"

\* MessageFilters values handed to listMessages directly.
ListFilters ==
    { Filters(Num(l), Num(o), f, s, q) :
        l \in {1, 2, 50}, o \in {0, 1},
        f \in {NULL, <<>>, FROM_100, FROM_10},
        s \in {NULL, <<>>, TS_2},
        q \in {NULL, <<>>, Q_hello, Q_pct, Q_a_b} }

(***************************************************************************)
(* storage.ts: getStats and pingDb                                         *)
(***************************************************************************)
SendersOf(tbl) == {tbl[i].from_msisdn : i \in 1..Len(tbl)}

\* SELECT COUNT(*) as count FROM messages
StatTotal(tbl) == Len(tbl)

\* SELECT COUNT(DISTINCT from_msisdn) as count FROM messages
StatSenders(tbl) == Cardinality(SendersOf(tbl))

CountOf(tbl, from) == Cardinality({i \in 1..Len(tbl) : tbl[i].from_msisdn = from})

\* The groups of GROUP BY from_msisdn, in ascending from_msisdn.
RECURSIVE GroupsAscending(_, _)
GroupsAscending(tbl, senders) ==
    IF senders = {} THEN <<>>
    ELSE LET least == CHOOSE x \in senders : \A y \in senders : TextLeq(x, y)
         IN  <<[from_msisdn |-> least, count |-> CountOf(tbl, least)]>>
             \o GroupsAscending(tbl, senders \ {least})

Reverse(seq) == [i \in 1..Len(seq) |-> seq[Len(seq) + 1 - i]]

\* ORDER BY count DESC leaves the order of groups with equal counts to the
\* engine: ties come out in ascending or in descending from_msisdn.
TieOrders == {"ascending", "descending"}

RECURSIVE InsertByCount(_, _)
InsertByCount(g, sorted) ==
    IF sorted = <<>> THEN <<g>>
    ELSE IF g.count >= Head(sorted).count THEN <<g>> \o sorted
    ELSE <<Head(sorted)>> \o InsertByCount(g, Tail(sorted))

RECURSIVE OrderByCountDesc(_)
OrderByCountDesc(groups) ==
    IF groups = <<>> THEN <<>>
    ELSE InsertByCount(Head(groups), OrderByCountDesc(Tail(groups)))

TopSenders == 10

\* The statement without its ORDER BY: the first groups in group order.
StatPerSenderUnordered(tbl, tie) ==
    LET groups == GroupsAscending(tbl, SendersOf(tbl))
        tied == IF tie = "ascending" THEN groups ELSE Reverse(groups)
    IN  SubSeq(tied, 1, Min(TopSenders, Len(tied)))

\* SELECT from_msisdn, COUNT(*) as count FROM messages GROUP BY from_msisdn
\* ORDER BY count DESC LIMIT 10
StatPerSender(tbl, tie) ==
    LET groups == GroupsAscending(tbl, SendersOf(tbl))
        tied == IF tie = "ascending" THEN groups ELSE Reverse(groups)
        ordered == OrderByCountDesc(tied)
    IN  SubSeq(ordered, 1, Min(TopSenders, Len(ordered)))

\* rawMessagesPerSender.map(...)
MapSenders(gs) == [i \in 1..Len(gs) |-> [from |-> gs[i].from_msisdn, count |-> gs[i].count]]

\* SELECT ts FROM messages ORDER BY ts ASC, message_id ASC LIMIT 1; no row
\* reads as NULL (firstRow?.ts ?? null).
StatFirst(tbl) == IF tbl = <<>> THEN NULL ELSE OrderBy(tbl)[1].ts

RECURSIVE InsertSortedDesc(_, _)
InsertSortedDesc(r, sorted) ==
    IF sorted = <<>> THEN <<r>>
    ELSE IF RowBefore(Head(sorted), r) THEN <<r>> \o sorted
    ELSE <<Head(sorted)>> \o InsertSortedDesc(r, Tail(sorted))

RECURSIVE OrderByDesc(_)
OrderByDesc(tbl) ==
    IF tbl = <<>> THEN <<>> ELSE InsertSortedDesc(Head(tbl), OrderByDesc(Tail(tbl)))

\* The ts of the row inserted last, in place of the greatest (ts, message_id).
StatLastInserted(tbl) == IF tbl = <<>> THEN NULL ELSE tbl[Len(tbl)].ts

\* SELECT ts FROM messages ORDER BY ts DESC, message_id DESC LIMIT 1
StatLast(tbl) == IF tbl = <<>> THEN NULL ELSE OrderByDesc(tbl)[1].ts

\* getStats() on a table that does not change between its five statements.
getStats(tbl, tie) ==
    [total_messages |-> StatTotal(tbl),
     senders_count |-> StatSenders(tbl),
     messages_per_sender |-> MapSenders(StatPerSender(tbl, tie)),
     first_message_ts |-> StatFirst(tbl),
     last_message_ts |-> StatLast(tbl)]

\* pingDb(): getDb() is called before the try, so its error leaves pingDb;
\* inside the try, value is whether SELECT 1 ran.
pingDb(handle, fault) ==
    IF getDb(handle).threw
    THEN [threw |-> TRUE, error |-> getDb(handle).error, value |-> FALSE]
    ELSE [threw |-> FALSE, error |-> "", value |-> fault = "none"]

(***************************************************************************)
(* models.ts                                                               *)
(***************************************************************************)
ParseError == [json |-> FALSE]

Doc(id, from, to, ts, text) ==
    [json |-> TRUE, message_id |-> id, from |-> from, to |-> to, ts |-> ts, text |-> text]

FROM_bare == <<49, 48, 48>>   \* "100"

\* JSON.parse(rawBody) for the bodies of the model: the object the text denotes
\* (a key that is missing reads as NULL), or ParseError where it throws.
JSONparse(rawBody) ==
    CASE rawBody = BODY_m1a -> Doc(ID_m1, FROM_100, TO_900, TS_2, TXT_Hello)
      [] rawBody = BODY_m1b -> Doc(ID_m1, FROM_200, TO_901, TS_1, TXT_aXb)
      [] rawBody = BODY_m2 -> Doc(ID_m2, FROM_100, TO_900, TS_1, NULL)
      [] rawBody = BODY_badfrom -> Doc(ID_m2, FROM_bare, TO_900, TS_1, NULL)
      [] rawBody = BODY_cut -> ParseError
      [] rawBody = BODY_abc -> ParseError

\* /^\d{4}-\d{2}-\d{2}T\d{2}:\d{2}:\d{2}Z$/
IsoUtc(s) ==
    /\ s # NULL
    /\ Len(s) = 20
    /\ \A i \in {1, 2, 3, 4, 6, 7, 9, 10, 12, 13, 15, 16, 18, 19} : IsDigit(s[i])
    /\ s[5] = 45 /\ s[8] = 45 /\ s[11] = 84 /\ s[14] = 58 /\ s[17] = 58 /\ s[20] = 90

\* /^\+\d+$/
Phone(s) ==
    /\ s # NULL
    /\ Len(s) >= 2
    /\ s[1] = 43
    /\ \A i \in 2..Len(s) : IsDigit(s[i])

MaxText == 4096

\* webhookMessageSchema.safeParse(doc).success
SchemaOk(doc) ==
    /\ doc.message_id # NULL /\ Len(doc.message_id) >= 1
    /\ Phone(doc.from)
    /\ Phone(doc.to)
    /\ IsoUtc(doc.ts)
    /\ doc.text = NULL \/ Len(doc.text) <= MaxText

\* parsed.data
ParsedMessage(doc) == Msg(doc.message_id, doc.from, doc.to, doc.ts, doc.text)

(***************************************************************************)
(* metrics.ts                                                              *)
(***************************************************************************)
\* counter[key] = (counter[key] ?? 0) + 1
Incr(counter, key) ==
    IF key \in DOMAIN counter
    THEN [counter EXCEPT ![key] = @ + 1]
    ELSE [k \in DOMAIN counter \cup {key} |-> IF k = key THEN 1 ELSE counter[k]]

NoCounts == [k \in {} |-> 0]

\* recordHttpRequest with the status the handler starts from, 200, whatever
\* status it sends.
recordHttpRequestOk(p, path, status) ==
    httpRequests' = [httpRequests EXCEPT ![p] = Incr(@, <<path, 200>>)]

recordHttpRequest(p, path, status) ==
    httpRequests' = [httpRequests EXCEPT ![p] = Incr(@, <<path, status>>)]

\* recordWebhookResult with the result the handler starts from, "created".
recordWebhookResultCreated(p, result) ==
    webhookResults' = [webhookResults EXCEPT ![p] = Incr(@, "created")]

recordWebhookResult(p, result) ==
    webhookResults' = [webhookResults EXCEPT ![p] = Incr(@, result)]

BucketOf(ms) == IF ms <= 100 THEN "100" ELSE IF ms <= 500 THEN "500" ELSE "Infinity"

\* recordLatency run twice for one request.
recordLatencyTwice(p, ms) ==
    /\ latencyCount' = [latencyCount EXCEPT ![p] = @ + 2]
    /\ latencyTotal' = [latencyTotal EXCEPT ![p] = @ + ms + ms]
    /\ latencyBuckets' = [latencyBuckets EXCEPT ![p] = Incr(Incr(@, BucketOf(ms)), BucketOf(ms))]

recordLatency(p, ms) ==
    /\ latencyCount' = [latencyCount EXCEPT ![p] = @ + 1]
    /\ latencyTotal' = [latencyTotal EXCEPT ![p] = @ + ms]
    /\ latencyBuckets' = [latencyBuckets EXCEPT ![p] = Incr(@, BucketOf(ms))]

\* Number(k) of a key of latencyBuckets.
Infinity == [inf |-> TRUE, n |-> 0]
BucketBound(k) == IF k = "Infinity" THEN Infinity
                  ELSE IF k = "100" THEN [inf |-> FALSE, n |-> 100]
                  ELSE [inf |-> FALSE, n |-> 500]

\* Object.keys(latencyBuckets): the integer keys ascending, then "Infinity".
BucketKeys == <<"100", "500", "Infinity">>

\* (a, b) => (a === Infinity ? 1 : b === Infinity ? -1 : a - b)
BucketCompare(a, b) == IF a.inf THEN 1 ELSE IF b.inf THEN -1 ELSE a.n - b.n

RECURSIVE InsertBucket(_, _)
InsertBucket(k, sorted) ==
    IF sorted = <<>> THEN <<k>>
    ELSE IF BucketCompare(BucketBound(k), BucketBound(Head(sorted))) < 0 THEN <<k>> \o sorted
    ELSE <<Head(sorted)>> \o InsertBucket(k, Tail(sorted))

RECURSIVE SortBuckets(_)
SortBuckets(keys) ==
    IF keys = <<>> THEN <<>>
    ELSE InsertBucket(keys[Len(keys)], SortBuckets(SubSeq(keys, 1, Len(keys) - 1)))

BucketLabel(k) == IF BucketBound(k).inf THEN "+Inf" ELSE k

\* The bucket lines with the stored count of each bucket, not accumulated.
BucketLinesRaw(buckets, keys, cumulative) ==
    [i \in 1..Len(keys) |-> [le |-> BucketLabel(keys[i]), value |-> buckets[keys[i]]]]

\* The loop over buckets: cumulative += latencyBuckets[le]; one line per bucket.
RECURSIVE BucketLines(_, _, _)
BucketLines(buckets, keys, cumulative) ==
    IF keys = <<>> THEN <<>>
    ELSE <<[le |-> BucketLabel(Head(keys)), value |-> cumulative + buckets[Head(keys)]]>>
         \o BucketLines(buckets, Tail(keys), cumulative + buckets[Head(keys)])

\* renderMetrics() in process p: the lines by family.  http and webhook map
\* the labels of a line to its value.
renderMetrics(p) ==
    [http |-> httpRequests[p],
     webhook |-> webhookResults[p],
     buckets |-> BucketLines(latencyBuckets[p], SortBuckets(BucketKeys), 0),
     count |-> latencyCount[p],
     sum |-> latencyTotal[p]]

\* performance.now() - start, as the handlers may measure it.
Latencies == {50, 300, 900}

(***************************************************************************)
(* main.ts: POST /webhook                                                  *)
(***************************************************************************)
\* The handler's checks in a different order: the body is parsed and validated
\* before the signature is looked at.
WebhookChecksBodyFirst(secret, signature, rawBody) ==
    IF ~Truthy(secret)
    THEN [status |-> 503, result |-> "secret_missing", detail |-> "service not ready",
          stages |-> <<"secret">>]
    ELSE IF ~JSONparse(rawBody).json
    THEN [status |-> 422, result |-> "validation_error", detail |-> "invalid json",
          stages |-> <<"secret", "json">>]
    ELSE IF ~SchemaOk(JSONparse(rawBody))
    THEN [status |-> 422, result |-> "validation_error", detail |-> "schema",
          stages |-> <<"secret", "json", "schema">>]
    ELSE IF ~isValidSignature(signature, secret, rawBody)
    THEN [status |-> 401, result |-> "invalid_signature", detail |-> "invalid signature",
          stages |-> <<"secret", "json", "schema", "signature">>]
    ELSE [status |-> 200, result |-> "insert", detail |-> "",
          stages |-> <<"secret", "json", "schema", "signature">>]

\* The handler up to the insert: the first check that fails decides the
\* response; result "insert" says every check passed.  stages lists the checks
\* made.  The 422 of a schema failure carries parsed.error.format(), here "schema".
WebhookChecks(secret, signature, rawBody) ==
    IF ~Truthy(secret)
    THEN [status |-> 503, result |-> "secret_missing", detail |-> "service not ready",
          stages |-> <<"secret">>]
    ELSE IF ~isValidSignature(signature, secret, rawBody)
    THEN [status |-> 401, result |-> "invalid_signature", detail |-> "invalid signature",
          stages |-> <<"secret", "signature">>]
    ELSE IF ~JSONparse(rawBody).json
    THEN [status |-> 422, result |-> "validation_error", detail |-> "invalid json",
          stages |-> <<"secret", "signature", "json">>]
    ELSE IF ~SchemaOk(JSONparse(rawBody))
    THEN [status |-> 422, result |-> "validation_error", detail |-> "schema",
          stages |-> <<"secret", "signature", "json", "schema">>]
    ELSE [status |-> 200, result |-> "insert", detail |-> "",
          stages |-> <<"secret", "signature", "json", "schema">>]

\* The response of POST /webhook once the checks gave c, with what the handler
\* leaves in its variables (status, result, dup) and the table after it.  body
\* is "ok" for {"status":"ok"} and otherwise the detail sent.
WebhookResponse(request, c, tbl, t, fault) ==
    IF c.result # "insert"
    THEN [op |-> "POST /webhook", request |-> request, status |-> c.status,
          sent |-> c.status, result |-> c.result, dup |-> FALSE, body |-> c.detail,
          stages |-> c.stages, fault |-> "none", counted |-> FALSE, tbl |-> tbl]
    ELSE LET r == insertMessage(tbl, ParsedMessage(JSONparse(request.rawBody)), t, fault)
         IN  IF r.threw
             THEN [op |-> "POST /webhook", request |-> request, status |-> 500,
                   sent |-> 500, result |-> "error", dup |-> FALSE, body |-> r.error,
                   stages |-> c.stages \o <<"insert">>, fault |-> fault,
                   counted |-> FALSE, tbl |-> r.tbl]
             ELSE [op |-> "POST /webhook", request |-> request, status |-> 200,
                   sent |-> 200, result |-> IF r.dup THEN "duplicate" ELSE "created",
                   dup |-> r.dup, body |-> "ok",
                   stages |-> c.stages \o <<"insert">>, fault |-> fault,
                   counted |-> TRUE, tbl |-> r.tbl]

RECURSIVE SumOver(_, _)
SumOver(f, S) ==
    IF S = {} THEN 0
    ELSE LET x == CHOOSE x \in S : TRUE IN f[x] + SumOver(f, S \ {x})

\* The requests received so far.  (Not every route records a latency, so
\* latencyCount does not count them.)
Received == served

\* A request arrives at process p, one of at most max.  arrival notes how many
\* rows the table held.
Receive(p, request, max) ==
    /\ pc[p] = "idle"
    /\ Received < max
    /\ pc' = [pc EXCEPT ![p] = "received"]
    /\ req' = [req EXCEPT ![p] = [request EXCEPT !.arrival = Len(messages)]]
    /\ served' = served + 1
    /\ UNCHANGED <<storeVars, startupVars, rows, resp, metricVars>>

\* app.post("/webhook", ...): the whole handler, finalize() included.
HandleWebhook(p, fault, latency) ==
    /\ pc[p] = "received"
    /\ req[p].path = "/webhook"
    /\ \E c \in {WebhookChecks(webhookSecret, req[p].signature, req[p].rawBody)} :
       \E r \in {WebhookResponse(req[p], c, messages, clock, fault)} :
           /\ messages' = r.tbl
           /\ clock' = IF c.result = "insert" THEN clock + 1 ELSE clock
           /\ resp' = [resp EXCEPT ![p] = [r EXCEPT !.tbl = <<>>]]
           /\ IF r.counted
              THEN recordWebhookResult(p, r.result)
              ELSE UNCHANGED webhookResults
           /\ recordHttpRequest(p, "/webhook", r.status)
           /\ recordLatency(p, latency)
    /\ pc' = [pc EXCEPT ![p] = "idle"]
    /\ req' = [req EXCEPT ![p] = NoRet]
    /\ UNCHANGED <<calls, ret, startupVars, rows, served>>

WebhookRequest(signature, rawBody) ==
    [path |-> "/webhook", signature |-> signature, rawBody |-> rawBody, arrival |-> 0]

\* POST /webhook requests: each body unsigned, signed under the secret, and
\* carrying the signature of another body.
WebhookBodies == {BODY_m1a, BODY_m1b, BODY_m2, BODY_badfrom, BODY_cut}

WebhookRequests ==
    { WebhookRequest(sig, b) :
        sig \in {NULL, computeHmac(SECRET_secret, BODY_abc)}, b \in WebhookBodies }
    \cup { WebhookRequest(computeHmac(SECRET_secret, b), b) : b \in WebhookBodies }

(***************************************************************************)
(* main.ts: GET /messages                                                  *)
(***************************************************************************)
RECURSIVE DigitsValue(_)
DigitsValue(s) ==
    IF s = <<>> THEN 0 ELSE 10 * DigitsValue(SubSeq(s, 1, Len(s) - 1)) + (s[Len(s)] - 48)

AllDigits(s) == Len(s) >= 1 /\ \A i \in 1..Len(s) : IsDigit(s[i])

\* Number(s) for the parameter texts of the model: "" is 0, an optional "-"
\* before digits, or before digits "." digit, is that number, and the texts
\* that are no numeric literal are NaN.
NumberOf(s) ==
    IF s = <<>> THEN Num(0)
    ELSE LET neg == s[1] = 45
             body == IF neg THEN Tail(s) ELSE s
             sign == IF neg THEN -1 ELSE 1
             n == Len(body)
         IN  IF AllDigits(body) THEN [nan |-> FALSE, x10 |-> sign * 10 * DigitsValue(body)]
             ELSE IF n >= 3 /\ body[n - 1] = 46 /\ IsDigit(body[n])
                     /\ AllDigits(SubSeq(body, 1, n - 2))
             THEN [nan |-> FALSE,
                   x10 |-> sign * (10 * DigitsValue(SubSeq(body, 1, n - 2)) + (body[n] - 48))]
             ELSE NaN

DefaultLimit == 50
MaxLimit == 100

\* parseMessagesQuery(url): the search parameters are NULL where absent.
parseMessagesQuery(query) ==
    LET limitNum == IF Truthy(query.limit) THEN NumberOf(query.limit) ELSE Num(DefaultLimit)
        offsetNum == IF Truthy(query.offset) THEN NumberOf(query.offset) ELSE Num(0)
    IN  IF \/ limitNum.nan
           \/ limitNum.x10 < 10
           \/ limitNum.x10 > 10 * MaxLimit
           \/ offsetNum.nan
           \/ offsetNum.x10 < 0
        THEN [ok |-> FALSE, status |-> 422,
              detail |-> "limit must be 1-100 and offset must be >=0"]
        ELSE IF Truthy(query.since) /\ ~IsoUtc(query.since)
        THEN [ok |-> FALSE, status |-> 422, detail |-> "invalid since"]
        ELSE [ok |-> TRUE,
              value |-> Filters(limitNum, offsetNum, query.from, query.since, query.q)]

\* finalize() of a handler: one http_requests_total increment, one latency.
Finalize(p, path, status, latency) ==
    /\ recordHttpRequest(p, path, status)
    /\ recordLatency(p, latency)
    /\ UNCHANGED webhookResults

\* app.get("/messages", ...) up to the end of the row statement of listMessages:
\* a query that does not parse is answered 422, a statement that fails 500.
MessagesSelect(p, latency) ==
    /\ pc[p] = "received"
    /\ req[p].path = "/messages"
    /\ \E parsed \in {parseMessagesQuery(req[p].query)} :
         IF ~parsed.ok
         THEN /\ resp' = [resp EXCEPT ![p] =
                    [op |-> "GET /messages", request |-> req[p], status |-> parsed.status,
                     body |-> parsed.detail, stages |-> <<"parse">>]]
              /\ Finalize(p, "/messages", parsed.status, latency)
              /\ pc' = [pc EXCEPT ![p] = "idle"]
              /\ req' = [req EXCEPT ![p] = NoRet]
              /\ UNCHANGED rows
         ELSE \E sel \in {SelectRows(messages, parsed.value)} :
                IF sel.err # "none"
                THEN /\ resp' = [resp EXCEPT ![p] =
                           [op |-> "GET /messages", request |-> req[p], status |-> 500,
                            body |-> sel.err, stages |-> <<"parse", "select">>]]
                     /\ Finalize(p, "/messages", 500, latency)
                     /\ pc' = [pc EXCEPT ![p] = "idle"]
                     /\ req' = [req EXCEPT ![p] = NoRet]
                     /\ UNCHANGED rows
                ELSE /\ rows' = [rows EXCEPT ![p] = MapRows(sel.rows)]
                     /\ pc' = [pc EXCEPT ![p] = "counting"]
                     /\ UNCHANGED <<req, resp, metricVars>>
    /\ UNCHANGED <<storeVars, startupVars, served>>

\* The rest of the handler: the count statement of listMessages, res.json and
\* finalize().
MessagesCount(p, latency) ==
    /\ pc[p] = "counting"
    /\ \E filters \in {parseMessagesQuery(req[p].query).value} :
         resp' = [resp EXCEPT ![p] =
            [op |-> "GET /messages", request |-> req[p], status |-> 200, body |-> "data",
             stages |-> <<"parse", "select", "count">>,
             data |-> rows[p], total |-> CountRows(messages, filters),
             limit |-> filters.limit, offset |-> filters.offset]]
    /\ Finalize(p, "/messages", 200, latency)
    /\ pc' = [pc EXCEPT ![p] = "idle"]
    /\ req' = [req EXCEPT ![p] = NoRet]
    /\ rows' = [rows EXCEPT ![p] = <<>>]
    /\ UNCHANGED <<storeVars, startupVars, served>>

MessagesRequest(limit, offset, from, since, q) ==
    [path |-> "/messages", arrival |-> 0,
     query |-> [limit |-> limit, offset |-> offset, from |-> from, since |-> since, q |-> q]]

N_0 == <<48>>              \* "0"
N_1 == <<49>>              \* "1"
N_2 == <<50>>              \* "2"
N_100 == <<49, 48, 48>>    \* "100"
N_101 == <<49, 48, 49>>    \* "101"
N_1_5 == <<49, 46, 53>>    \* "1.5"
N_0_5 == <<48, 46, 53>>    \* "0.5"
N_minus1 == <<45, 49>>     \* "-1"
N_abc == <<97, 98, 99>>    \* "abc"
SINCE_day == <<50, 48, 50, 53, 45, 48, 49, 45, 49, 53>>   \* "2025-01-15"

\* GET /messages requests: every limit with no offset, every offset with no
\* limit, pages of one row, the filters, and a bad limit with a bad since.
MessagesRequests ==
    { MessagesRequest(l, NULL, NULL, NULL, NULL) :
        l \in {NULL, <<>>, N_0, N_1, N_2, N_100, N_101, N_1_5, N_abc} }
    \cup { MessagesRequest(NULL, o, NULL, NULL, NULL) :
        o \in {<<>>, N_0, N_1, N_minus1, N_0_5, N_abc} }
    \cup { MessagesRequest(N_1, N_1, NULL, NULL, NULL),
           MessagesRequest(NULL, NULL, FROM_100, TS_1, NULL),
           MessagesRequest(NULL, NULL, NULL, SINCE_day, NULL),
           MessagesRequest(N_0, NULL, NULL, SINCE_day, NULL) }

(***************************************************************************)
(* main.ts: GET /stats, the health probes, GET /metrics and the 404 handler *)
(***************************************************************************)
PlainRequest(path) == [path |-> path, arrival |-> 0]

\* The k-th of the five statements of getStats on table tbl.
StatStatement(k, tbl, tie) ==
    CASE k = 1 -> StatTotal(tbl)
      [] k = 2 -> StatSenders(tbl)
      [] k = 3 -> MapSenders(StatPerSender(tbl, tie))
      [] k = 4 -> StatFirst(tbl)
      [] k = 5 -> StatLast(tbl)

\* app.get("/stats", ...), one statement of getStats at a time: rows[p] holds
\* the results so far.  A statement that fails ends the request with 500; the
\* fifth one ends it with 200 and the statistics.
StatsStatement(p, fault, tie, latency) ==
    /\ \/ pc[p] = "received" /\ req[p].path = "/stats"
       \/ pc[p] = "stats"
    /\ IF fault # "none"
       THEN /\ resp' = [resp EXCEPT ![p] =
                  [op |-> "GET /stats", request |-> req[p], status |-> 500,
                   body |-> fault]]
            /\ Finalize(p, "/stats", 500, latency)
            /\ pc' = [pc EXCEPT ![p] = "idle"]
            /\ req' = [req EXCEPT ![p] = NoRet]
            /\ rows' = [rows EXCEPT ![p] = <<>>]
       ELSE \E got \in {Append(rows[p], StatStatement(Len(rows[p]) + 1, messages, tie))} :
              IF Len(got) < 5
              THEN /\ rows' = [rows EXCEPT ![p] = got]
                   /\ pc' = [pc EXCEPT ![p] = "stats"]
                   /\ UNCHANGED <<req, resp, metricVars>>
              ELSE /\ resp' = [resp EXCEPT ![p] =
                         [op |-> "GET /stats", request |-> req[p], status |-> 200,
                          body |-> "stats",
                          stats |-> [total_messages |-> got[1],
                                     senders_count |-> got[2],
                                     messages_per_sender |-> got[3],
                                     first_message_ts |-> got[4],
                                     last_message_ts |-> got[5]]]]
                   /\ Finalize(p, "/stats", 200, latency)
                   /\ pc' = [pc EXCEPT ![p] = "idle"]
                   /\ req' = [req EXCEPT ![p] = NoRet]
                   /\ rows' = [rows EXCEPT ![p] = <<>>]
    /\ UNCHANGED <<storeVars, startupVars, served>>

\* A handler that sends its response and records nothing.
Answer(p, response) ==
    /\ resp' = [resp EXCEPT ![p] = response]
    /\ pc' = [pc EXCEPT ![p] = "idle"]
    /\ req' = [req EXCEPT ![p] = NoRet]
    /\ UNCHANGED <<storeVars, startupVars, rows, served, metricVars>>

\* app.get("/health/live", ...)
HealthLive(p) ==
    /\ pc[p] = "received"
    /\ req[p].path = "/health/live"
    /\ Answer(p, [op |-> "GET /health/live", request |-> req[p], status |-> 200,
                  body |-> "live"])

\* The readiness answer with the two flags swapped in the 503 body.
ReadyResponseSwapped(request, healthyDb, hasSecret) ==
    IF ~(healthyDb /\ hasSecret)
    THEN [op |-> "GET /health/ready", request |-> request, status |-> 503,
          body |-> "not-ready", db |-> hasSecret, secret |-> healthyDb]
    ELSE [op |-> "GET /health/ready", request |-> request, status |-> 200,
          body |-> "ready"]

ReadyResponse(request, healthyDb, hasSecret) ==
    IF ~(healthyDb /\ hasSecret)
    THEN [op |-> "GET /health/ready", request |-> request, status |-> 503,
          body |-> "not-ready", db |-> healthyDb, secret |-> hasSecret]
    ELSE [op |-> "GET /health/ready", request |-> request, status |-> 200,
          body |-> "ready"]

\* app.get("/health/ready", ...); fault is what SELECT 1 meets in the engine.
\* The response notes what pingDb returned.  The handler has no try: an error
\* thrown by pingDb goes to the default error handler of express, which
\* answers 500.
HealthReady(p, fault) ==
    /\ pc[p] = "received"
    /\ req[p].path = "/health/ready"
    /\ LET r == pingDb(db, fault)
       IN  IF r.threw
           THEN Answer(p, [op |-> "GET /health/ready", request |-> req[p],
                           status |-> 500, body |-> "Internal Server Error",
                           pinged |-> FALSE])
           ELSE Answer(p, [pinged |-> r.value]
                          @@ ReadyResponse(req[p], r.value, Truthy(webhookSecret)))

\* app.get("/metrics", ...)
ServeMetrics(p) ==
    /\ pc[p] = "received"
    /\ req[p].path = "/metrics"
    /\ Answer(p, [op |-> "GET /metrics", request |-> req[p], status |-> 200,
                  body |-> "metrics", out |-> renderMetrics(p)])

Routes == {"/webhook", "/messages", "/stats", "/health/live", "/health/ready", "/metrics"}

\* app.use((req, res) => ...): the handler of every path without a route.
NotFound(p, latency) ==
    /\ pc[p] = "received"
    /\ req[p].path \notin Routes
    /\ resp' = [resp EXCEPT ![p] =
           [op |-> "404", request |-> req[p], status |-> 404, body |-> "Not found"]]
    /\ Finalize(p, req[p].path, 404, latency)
    /\ pc' = [pc EXCEPT ![p] = "idle"]
    /\ req' = [req EXCEPT ![p] = NoRet]
    /\ UNCHANGED <<storeVars, startupVars, rows, served>>

(***************************************************************************)
(* Direct calls of storage.ts (as the scripts make them).                  *)
(***************************************************************************)
InsertCall(message, fault) ==
    /\ Len(calls) < MaxInserts
    /\ LET r == insertMessage(messages, message, clock, fault)
           c == [op |-> "insertMessage", message |-> message, at |-> ToISOString(clock),
                 threw |-> r.threw, error |-> r.error, created |-> r.created, dup |-> r.dup]
       IN  /\ messages' = r.tbl
           /\ calls' = Append(calls, c)
           /\ ret' = c
    /\ clock' = clock + 1
    /\ UNCHANGED <<httpVars, metricVars>>

\* listMessages changes nothing, so one call between two inserts reaches every
\* result a run of calls would.
ListCall(filters) ==
    /\ ret.op # "listMessages"
    /\ LET r == listMessages(messages, filters)
       IN  ret' = [op |-> "listMessages", filters |-> filters, threw |-> r.threw,
                   error |-> r.error, data |-> r.data, total |-> r.total]
    /\ UNCHANGED <<messages, clock, calls, httpVars, metricVars>>

\* URLs of each form sqlitePathFromUrl tells apart.
DatabaseUrls ==
    {URL_default, URL_local, URL_relative, URL_bare, URL_memory, URL_MEM, URL_empty}

\* initDb(databaseUrl) called directly; the call notes what the files held
\* when it was made.
InitDbCall(databaseUrl, fault) ==
    /\ Len(calls) < MaxInserts
    /\ Cardinality({i \in 1..Len(calls) : calls[i].op = "initDb"}) < MaxInits
    /\ LET r == initDb(db, files, messages, databaseUrl, fault)
           c == [op |-> "initDb", url |-> databaseUrl, dbPath |-> r.dbPath,
                 threw |-> r.threw, error |-> r.error, logged |-> r.logged,
                 openedAs |-> r.openedAs, before |-> Flush(db, files, messages)]
       IN  /\ db' = r.db
           /\ files' = r.files
           /\ messages' = r.tbl
           /\ calls' = Append(calls, c)
           /\ ret' = c
    /\ UNCHANGED <<clock, webhookSecret, pc, req, rows, resp, served, metricVars>>

\* pingDb() called directly.
PingCall(fault) ==
    /\ ret.op # "pingDb"
    /\ ret' = [op |-> "pingDb"] @@ pingDb(db, fault)
    /\ UNCHANGED <<messages, clock, calls, httpVars, metricVars>>

\* insertMessage(message) called directly in any state of the module: getDb()
\* throws before initDb, the statement fails where the table is missing.
StoreCall(message, fault) ==
    IF db.open /\ "messages" \in db.tables
    THEN InsertCall(message, fault)
    ELSE /\ ret.op # "insertMessage"
         /\ ret' = [op |-> "insertMessage", message |-> message, threw |-> TRUE,
                    error |-> IF getDb(db).threw THEN getDb(db).error
                              ELSE "no such table: messages",
                    created |-> FALSE, dup |-> FALSE]
         /\ UNCHANGED <<messages, clock, calls, httpVars, metricVars>>

MaxObservations == 4

\* Latencies on and around the bounds of the buckets.
Observations == {0, 100, 101, 500, 501, 900}

\* recordLatency(ms) called directly, in process 1.
LatencyCall(ms) ==
    /\ Len(calls) < MaxObservations
    /\ recordLatency(1, ms)
    /\ calls' = Append(calls, [op |-> "recordLatency", ms |-> ms])
    /\ ret' = [op |-> "recordLatency", ms |-> ms]
    /\ UNCHANGED <<messages, clock, httpVars, httpRequests, webhookResults>>

\* renderMetrics() called directly, in process 1.
RenderCall ==
    /\ ret.op # "renderMetrics"
    /\ ret' = [op |-> "renderMetrics", out |-> renderMetrics(1)]
    /\ UNCHANGED <<messages, clock, calls, httpVars, metricVars>>

\* "+n" and "snn" for n < 100.
SenderOf(n) == IF n < 10 THEN <<43, 48 + n>> ELSE <<43, 48 + (n \div 10), 48 + (n % 10)>>
StatIdOf(n) == <<115, 48 + (n \div 10), 48 + (n % 10)>>

MaxStatRows == 12

\* One more message stored by insertMessage: from a sender not seen before when
\* fresh, and else from the sender of the row before; the ts values alternate
\* out of insertion order.
StatInsertCall(fresh) ==
    /\ Len(messages) < MaxStatRows
    /\ LET k == Len(messages) + 1
           from == IF fresh \/ messages = <<>>
                   THEN SenderOf(StatSenders(messages) + 1)
                   ELSE messages[Len(messages)].from_msisdn
           message == Msg(StatIdOf(k), from, TO_900, IF k % 3 = 1 THEN TS_2 ELSE TS_1, NULL)
           r == insertMessage(messages, message, clock, "none")
       IN  /\ messages' = r.tbl
           /\ ret' = [op |-> "insertMessage", message |-> message, threw |-> r.threw,
                      created |-> r.created, dup |-> r.dup]
    /\ clock' = clock + 1
    /\ UNCHANGED <<calls, httpVars, metricVars>>

StatsCall(tie) ==
    /\ ret.op # "getStats"
    /\ ret' = [op |-> "getStats", tie |-> tie, stats |-> getStats(messages, tie)]
    /\ UNCHANGED <<messages, clock, calls, httpVars, metricVars>>

\* The module variables of storage.ts (but db), metrics.ts and main.ts as their
\* declarations leave them.
InitModules ==
    /\ messages = <<>>
    /\ clock = 0
    /\ calls = <<>>
    /\ ret = NoRet
    /\ webhookSecret \in {NULL, SECRET_secret}
    /\ pc = [p \in Procs |-> "idle"]
    /\ req = [p \in Procs |-> NoRet]
    /\ rows = [p \in Procs |-> <<>>]
    /\ resp = [p \in Procs |-> NoRet]
    /\ served = 0
    /\ httpRequests = [p \in Procs |-> NoCounts]
    /\ webhookResults = [p \in Procs |-> NoCounts]
    /\ latencyBuckets = [p \in Procs |-> [k \in {"100", "500", "Infinity"} |-> 0]]
    /\ latencyCount = [p \in Procs |-> 0]
    /\ latencyTotal = [p \in Procs |-> 0]

\* main.ts has run loadConfig and initDb(config.databaseUrl) on the default
\* URL, where it created the database.
Init ==
    /\ InitModules
    /\ db = Handle(PATH_data, Database({"messages"}, <<>>))
    /\ files = [f \in Locations |->
                  IF f = PATH_data THEN Database({"messages"}, <<>>)
                  ELSE [kind |-> "absent"]]

\* The scripts and tests call storage.ts and security.ts without the service's
\* configuration: no secret is loaded.
InitDirect == Init /\ webhookSecret = NULL

\* A row an earlier run of the service left in a database file.
OldRow == NewRow(Msg(ID_m2, FROM_200, TO_900, TS_2, TXT_50pct), ToISOString(0))

InitialFiles ==
    {[kind |-> "nodir"], [kind |-> "absent"], [kind |-> "unopenable"],
     [kind |-> "notadb"], Database({"messages"}, <<OldRow>>)}

\* storage.ts as imported, before any call: db is null.
InitBoot ==
    /\ InitModules
    /\ webhookSecret = NULL
    /\ db = Unopened
    /\ files \in [Locations -> InitialFiles]

NextBoot ==
    \/ \E url \in DatabaseUrls, fault \in {"none", "disk I/O error"} : InitDbCall(url, fault)
    \/ \E fault \in {"none", "disk I/O error"} : PingCall(fault)
    \/ \E m \in {Msg(ID_m1, FROM_100, TO_900, TS_2, TXT_Hello),
                  Msg(ID_m1, FROM_200, TO_901, TS_1, TXT_aXb)} : StoreCall(m, "none")

SpecBoot == InitBoot /\ [][NextBoot]_vars

NextStore ==
    \E message \in Payloads, fault \in {"none"} \cup EngineFaults :
        InsertCall(message, fault)

SpecStore == InitDirect /\ [][NextStore]_vars

NextList ==
    \/ \E message \in Payloads : InsertCall(message, "none")
    \/ \E filters \in ListFilters : ListCall(filters)

SpecList == InitDirect /\ [][NextList]_vars

NextStats ==
    \/ \E fresh \in BOOLEAN : StatInsertCall(fresh)
    \/ \E tie \in TieOrders : StatsCall(tie)

SpecStats == InitDirect /\ [][NextStats]_vars

NextMetrics ==
    \/ \E ms \in Observations : LatencyCall(ms)
    \/ RenderCall

SpecMetrics == InitDirect /\ [][NextMetrics]_vars

NextSig ==
    \E provided \in Provided, secret \in {NULL, <<>>} \cup SigSecrets, rawBody \in SigBodies :
        SigCall(provided, secret, rawBody)

SpecSig == InitDirect /\ [][NextSig]_vars

NextWebhook ==
    \/ \E p \in Procs, request \in WebhookRequests : Receive(p, request, MaxRequests)
    \/ \E p \in Procs, fault \in {"none"} \cup EngineFaults, latency \in Latencies :
          HandleWebhook(p, fault, latency)

SpecWebhook == Init /\ [][NextWebhook]_vars

Signed(rawBody) == WebhookRequest(computeHmac(SECRET_secret, rawBody), rawBody)

\* One request for each way through the handler: stored, repeated, unsigned,
\* failing the schema, no JSON.
OutcomeRequests ==
    {Signed(BODY_m1a), Signed(BODY_m1b), WebhookRequest(NULL, BODY_m1a),
     Signed(BODY_badfrom), Signed(BODY_cut)}

HandleOutcome(p) ==
    \E fault \in {"none", "disk I/O error"}, latency \in {50, 300} :
        HandleWebhook(p, fault, latency)

NextOutcome ==
    \/ \E p \in Procs, request \in OutcomeRequests : Receive(p, request, MaxRequests)
    \/ \E p \in Procs : HandleOutcome(p)

\* The handler is one synchronous function without a loop: once express has
\* called it, it runs to its end.
SpecWebhookFair ==
    /\ Init
    /\ [][NextOutcome]_vars
    /\ \A p \in Procs : WF_vars(HandleOutcome(p))

NextMessages ==
    \/ \E p \in Procs, request \in {Signed(BODY_m1a), Signed(BODY_m2)} \cup MessagesRequests :
          Receive(p, request, MaxRequests)
    \/ \E p \in Procs, latency \in Latencies : HandleWebhook(p, "none", latency)
    \/ \E p \in Procs, latency \in Latencies : MessagesSelect(p, latency)
    \/ \E p \in Procs, latency \in Latencies : MessagesCount(p, latency)

SpecMessages == Init /\ [][NextMessages]_vars

\* Every route of the service and a path without one.
ServiceRequests ==
    { Signed(BODY_m1a), Signed(BODY_m2), WebhookRequest(NULL, BODY_m1b),
      MessagesRequest(NULL, NULL, NULL, NULL, NULL),
      MessagesRequest(N_1_5, NULL, NULL, NULL, NULL),
      MessagesRequest(N_0, NULL, NULL, NULL, NULL),
      PlainRequest("/stats"), PlainRequest("/health/live"),
      PlainRequest("/health/ready"), PlainRequest("/metrics"), PlainRequest("/nope") }

NextService ==
    \/ \E p \in Procs, request \in ServiceRequests : Receive(p, request, MaxRequests)
    \/ \E p \in Procs, fault \in {"none"} \cup EngineFaults, latency \in Latencies :
          HandleWebhook(p, fault, latency)
    \/ \E p \in Procs, latency \in Latencies : MessagesSelect(p, latency)
    \/ \E p \in Procs, latency \in Latencies : MessagesCount(p, latency)
    \/ \E p \in Procs, fault \in {"none"} \cup EngineFaults, tie \in TieOrders,
          latency \in Latencies : StatsStatement(p, fault, tie, latency)
    \/ \E p \in Procs : HealthLive(p)
    \/ \E p \in Procs, fault \in {"none"} \cup EngineFaults : HealthReady(p, fault)
    \/ \E p \in Procs : ServeMetrics(p)
    \/ \E p \in Procs, latency \in Latencies : NotFound(p, latency)

SpecService == Init /\ [][NextService]_vars

\* POST /webhook and GET /messages together, on a few requests.
Requests ==
    { Signed(BODY_m1a), Signed(BODY_m1b),
      MessagesRequest(NULL, NULL, NULL, NULL, NULL),
      MessagesRequest(N_1, NULL, NULL, NULL, NULL) }

Next ==
    \/ \E p \in Procs, request \in Requests : Receive(p, request, MaxServed)
    \/ \E p \in Procs, fault \in {"none"} \cup EngineFaults, latency \in Latencies :
          HandleWebhook(p, fault, latency)
    \/ \E p \in Procs, latency \in Latencies : MessagesSelect(p, latency)
    \/ \E p \in Procs, latency \in Latencies : MessagesCount(p, latency)

Spec == Init /\ [][Next]_vars


(***************************************************************************)
(* Properties of storage.ts.                                               *)
(***************************************************************************)
SameId(a, b) == a.message.message_id = b.message.message_id

\* Call j follows a call that created the row of its message_id.
CreatedBefore(j) == \E i \in 1..(j - 1) : calls[i].created /\ SameId(calls[i], calls[j])

RowsWithId(id) == {k \in 1..Len(messages) : messages[k].message_id = id}

\* C1: of the insertMessage calls that return, the first one of a message_id
\* returns dup=false and every later one dup=true; a message_id has one row, and
\* that row holds the from, to, ts, text of the first call and the created_at
\* that call read, whatever the later payloads held.
C1_FirstWriteWins ==
    /\ \A j \in 1..Len(calls) :
         ~calls[j].threw =>
            /\ calls[j].dup = CreatedBefore(j)
            /\ calls[j].created = ~CreatedBefore(j)
    /\ \A j \in 1..Len(calls) :
         calls[j].created =>
            /\ Cardinality(RowsWithId(calls[j].message.message_id)) = 1
            /\ \A k \in RowsWithId(calls[j].message.message_id) :
                 /\ messages[k].from_msisdn = calls[j].message.from
                 /\ messages[k].to_msisdn = calls[j].message.to
                 /\ messages[k].ts = calls[j].message.ts
                 /\ messages[k].text = calls[j].message.text
                 /\ messages[k].created_at = calls[j].at
    /\ Len(messages) = Cardinality({j \in 1..Len(calls) : calls[j].created})

\* A duplicate insert whose payload differs from the stored one in from, to, ts and text.
C1_Witness ==
    \E i, j \in 1..Len(calls) :
        /\ i < j /\ calls[i].created /\ calls[j].dup /\ SameId(calls[i], calls[j])
        /\ calls[i].message.from # calls[j].message.from
        /\ calls[i].message.to # calls[j].message.to
        /\ calls[i].message.ts # calls[j].message.ts
        /\ calls[i].message.text # calls[j].message.text

IsListing == ret.op = "listMessages" /\ ~ret.threw

KeyLess(a, b) ==
    \/ TextLess(a.ts, b.ts)
    \/ a.ts = b.ts /\ TextLess(a.message_id, b.message_id)

\* Every order in which the stored rows could have been inserted.
Reorderings(tbl) ==
    {[i \in 1..Len(tbl) |-> tbl[f[i]]] : f \in Permutations(1..Len(tbl))}

\* C6: the rows listMessages returns ascend by ts and, on equal ts, by
\* message_id, and a table holding the same rows in any other insertion order
\* gives the same sequence.
C6_OrderedByTsThenId ==
    IsListing =>
        /\ \A i, j \in 1..Len(ret.data) : i < j => KeyLess(ret.data[i], ret.data[j])
        /\ \A t \in Reorderings(messages) : listMessages(t, ret.filters).data = ret.data

\* A listing of rows inserted out of order, two of them with the same ts.
C6_Witness ==
    /\ IsListing
    /\ Len(ret.data) >= 3
    /\ ret.data # MapRows(messages)
    /\ \E i \in 1..(Len(ret.data) - 1) : ret.data[i].ts = ret.data[i + 1].ts

\* A filter is supplied when it has a value: an empty parameter is none.
Supplied(x) == x # NULL /\ x # <<>>

SatisfiesAll(r, filters) ==
    /\ Supplied(filters.from) => r.from_msisdn = filters.from
    /\ Supplied(filters.since) => ~TextLess(r.ts, filters.since)
    /\ Supplied(filters.q) => TextLikeQ(r.text, filters.q)

\* C9: total counts exactly the stored rows that satisfy every supplied filter
\* (from: equal; since: ts >= since), and every returned row is such a row.
C9_FiltersAnd ==
    IsListing =>
        /\ ret.total = Cardinality({k \in 1..Len(messages) :
                                      SatisfiesAll(messages[k], ret.filters)})
        /\ \A i \in 1..Len(ret.data) :
             \E k \in 1..Len(messages) :
                /\ ret.data[i] = StoredMessage(messages[k])
                /\ SatisfiesAll(messages[k], ret.filters)

\* A listing under from and since together: one row passes with ts = since, one
\* row fails from only, one fails since only.
C9_Witness ==
    /\ IsListing
    /\ Supplied(ret.filters.from) /\ Supplied(ret.filters.since)
    /\ \E i \in 1..Len(ret.data) : ret.data[i].ts = ret.filters.since
    /\ \E k \in 1..Len(messages) :
         messages[k].from_msisdn # ret.filters.from
         /\ ~TextLess(messages[k].ts, ret.filters.since)
    /\ \E k \in 1..Len(messages) :
         messages[k].from_msisdn = ret.filters.from
         /\ TextLess(messages[k].ts, ret.filters.since)

LiteralMatch(r, q) == r.text # NULL /\ Contains(LOWER(r.text), LOWER(q))

\* C10: for a non-empty q (and no other filter) the rows counted and returned
\* are exactly those whose text is present and, lower-cased, contains the
\* lower-cased q character for character.
C10_LiteralSubstring ==
    (IsListing /\ Supplied(ret.filters.q)
       /\ ~Supplied(ret.filters.from) /\ ~Supplied(ret.filters.since)) =>
        /\ ret.total = Cardinality({k \in 1..Len(messages) :
                                      LiteralMatch(messages[k], ret.filters.q)})
        /\ \A i \in 1..Len(ret.data) :
             ret.data[i].text # NULL
             /\ Contains(LOWER(ret.data[i].text), LOWER(ret.filters.q))


(***************************************************************************)
(* Properties of security.ts.                                              *)
(***************************************************************************)
\* C5: isValidSignature returns a boolean, and true exactly when secret and
\* provided are non-empty and provided has the length of the hex HMAC-SHA256
\* of rawBody under secret and its character at every position.
C5_SignatureIffDigest ==
    ret.op = "isValidSignature" =>
        /\ ret.result \in BOOLEAN
        /\ ret.result =
             (/\ ret.secret # NULL /\ ret.secret # <<>>
              /\ ret.provided # NULL /\ ret.provided # <<>>
              /\ Len(ret.provided) = Len(computeHmac(ret.secret, ret.rawBody))
              /\ \A i \in 1..Len(ret.provided) :
                   ret.provided[i] = computeHmac(ret.secret, ret.rawBody)[i])

\* The digest of "abc" under "secret" is accepted for that body and secret.
C5_Witness ==
    /\ ret.op = "isValidSignature"
    /\ ret.result
    /\ ret.secret = SECRET_secret /\ ret.rawBody = BODY_abc


(***************************************************************************)
(* POST /webhook                                                           *)
(***************************************************************************)
IsWebhookResponse(r) == r.op = "POST /webhook"

\* The responses of POST /webhook that came back from insertMessage.
Inserted(r) == IsWebhookResponse(r) /\ r.status = 200

IdOf(r) == JSONparse(r.request.rawBody).message_id

\* The request of response r arrived before its message_id was stored.
ArrivedBefore(r) == ~HasId(SubSeq(messages, 1, r.request.arrival), IdOf(r))

\* How many insertMessage calls of the webhook returned dup=false so far.
CreatedCount ==
    SumOver([p \in Procs |->
                IF "created" \in DOMAIN webhookResults[p]
                THEN webhookResults[p]["created"] ELSE 0], Procs)

SignatureOk(r) ==
    /\ Truthy(webhookSecret)
    /\ r.request.signature # NULL
    /\ r.request.signature = computeHmac(webhookSecret, r.request.rawBody)

BodyOk(r) ==
    /\ JSONparse(r.request.rawBody).json
    /\ SchemaOk(JSONparse(r.request.rawBody))

Outcome(r, status, result, stages) ==
    r.status = status /\ r.result = result /\ r.stages = stages

\* C3: every response of POST /webhook is the outcome of the first check that
\* fails in the order secret, signature, JSON, schema, insert: 503 without a
\* secret whatever else the request holds, else 401 on a missing or wrong
\* signature whatever the body, else 422 on a body that is no JSON or fails the
\* schema, else 500 when the insert fails and 200 created or duplicate when not;
\* and no check after the failing one was made.
C3_FirstFailingCheck ==
    \A p \in Procs :
        IsWebhookResponse(resp[p]) =>
            LET r == resp[p] IN
            IF ~Truthy(webhookSecret)
            THEN Outcome(r, 503, "secret_missing", <<"secret">>)
            ELSE IF ~SignatureOk(r)
            THEN Outcome(r, 401, "invalid_signature", <<"secret", "signature">>)
            ELSE IF ~JSONparse(r.request.rawBody).json
            THEN Outcome(r, 422, "validation_error", <<"secret", "signature", "json">>)
            ELSE IF ~BodyOk(r)
            THEN Outcome(r, 422, "validation_error",
                         <<"secret", "signature", "json", "schema">>)
            ELSE IF r.fault # "none"
            THEN Outcome(r, 500, "error",
                         <<"secret", "signature", "json", "schema", "insert">>)
            ELSE /\ r.status = 200
                 /\ r.result \in {"created", "duplicate"}
                 /\ r.stages = <<"secret", "signature", "json", "schema", "insert">>

\* With a secret configured, one request with a wrong signature on a body that
\* is no JSON got 401, and a correctly signed request with a body that fails
\* the schema got 422.
C3_Witness ==
    \E p, q \in Procs :
        /\ IsWebhookResponse(resp[p]) /\ IsWebhookResponse(resp[q])
        /\ resp[p].request.signature # NULL
        /\ ~SignatureOk(resp[p]) /\ ~BodyOk(resp[p])
        /\ resp[p].status = 401
        /\ SignatureOk(resp[q]) /\ JSONparse(resp[q].request.rawBody).json /\ ~BodyOk(resp[q])
        /\ resp[q].status = 422


(***************************************************************************)
(* GET /messages                                                           *)
(***************************************************************************)
\* Process p sends its response in this step.
Responds(p) == pc[p] # "idle" /\ pc'[p] = "idle"

ValidSigned(request) ==
    /\ request.path = "/webhook"
    /\ Truthy(webhookSecret)
    /\ request.signature = computeHmac(webhookSecret, request.rawBody)
    /\ JSONparse(request.rawBody).json
    /\ SchemaOk(JSONparse(request.rawBody))

Unfiltered(query) ==
    query.offset = NULL /\ query.from = NULL /\ query.since = NULL /\ query.q = NULL

\* C4: a valid, correctly signed POST /webhook that the engine does not fail is
\* answered 200 {"status":"ok"} whether its message_id is new or stored already,
\* a repeat leaves the table as it was, with one row of that message_id; and a
\* GET /messages that arrived after the inserts reports every stored row in
\* total, so total=1 and one row with the message_id when one message was sent.
C4_RepeatAnswersOk ==
    [][\A p \in Procs : Responds(p) =>
          /\ (ValidSigned(req[p]) /\ resp'[p].fault = "none") =>
                /\ resp'[p].status = 200
                /\ resp'[p].body = "ok"
                /\ HasId(messages, JSONparse(req[p].rawBody).message_id)
                      => messages' = messages
                /\ Cardinality({k \in 1..Len(messages') : messages'[k].message_id
                                  = JSONparse(req[p].rawBody).message_id}) = 1
          /\ (req[p].path = "/messages" /\ Unfiltered(req[p].query)
                /\ req[p].arrival = Len(messages)) =>
                /\ resp'[p].status = 200
                /\ resp'[p].total = Len(messages)
                /\ Len(messages) = 1 =>
                      /\ Len(resp'[p].data) = 1
                      /\ resp'[p].data[1].message_id = messages[1].message_id
      ]_vars

\* "m1" was posted, posted again with the identical body, and then listed: one
\* created, one duplicate, both 200 ok, total=1 with the row of "m1".
C4_Witness ==
    \E p, q \in Procs :
        /\ p # q
        /\ resp[p].op = "GET /messages" /\ resp[p].status = 200
        /\ resp[p].total = 1 /\ Len(resp[p].data) = 1
        /\ resp[p].data[1].message_id = ID_m1
        /\ resp[p].request.arrival = 1
        /\ IsWebhookResponse(resp[q]) /\ resp[q].status = 200 /\ resp[q].body = "ok"
        /\ resp[q].dup
        /\ ParsedMessage(JSONparse(resp[q].request.rawBody)).text = messages[1].text
        /\ CreatedCount = 1
        /\ Len(messages) = 1
        /\ SumOver(latencyCount, Procs) = 3

\* What the query of a request asks for, by the rule of the interface: limit an
\* integer in 1..100 or omitted (50), offset an integer >= 0 or omitted (0).
AskedLimit(query) == IF Supplied(query.limit) THEN NumberOf(query.limit) ELSE Num(DefaultLimit)
AskedOffset(query) == IF Supplied(query.offset) THEN NumberOf(query.offset) ELSE Num(0)

InBounds(query) ==
    /\ IsInteger(AskedLimit(query))
    /\ AskedLimit(query).x10 >= 10 /\ AskedLimit(query).x10 <= 10 * MaxLimit
    /\ IsInteger(AskedOffset(query))
    /\ AskedOffset(query).x10 >= 0

\* C8: a GET /messages whose limit is no integer in 1..100 or whose offset is
\* no integer >= 0 is answered 422 "limit must be 1-100 and offset must be >=0"
\* before the store is queried; any other is not answered so, and its response
\* carries the limit and offset asked for, 50 and 0 where omitted.
C8_IntegerBounds ==
    \A p \in Procs :
        resp[p].op = "GET /messages" =>
            IF ~InBounds(resp[p].request.query)
            THEN /\ resp[p].status = 422
                 /\ resp[p].body = "limit must be 1-100 and offset must be >=0"
                 /\ resp[p].stages = <<"parse">>
            ELSE /\ resp[p].body # "limit must be 1-100 and offset must be >=0"
                 /\ resp[p].status = 200 =>
                       /\ resp[p].limit = AskedLimit(resp[p].request.query)
                       /\ resp[p].offset = AskedOffset(resp[p].request.query)

\* C7: a GET /messages whose limit and offset were accepted is answered 200
\* with total the number of stored rows that match, and data the rows at
\* positions offset+1 .. offset+limit of the matching rows in order, so that
\* length(data) = min(limit, max(0, total - offset)).
C7_TotalAndPage ==
    [][\A p \in Procs :
          (Responds(p) /\ req[p].path = "/messages"
              /\ "select" \in Range(resp'[p].stages)) =>
             /\ resp'[p].status = 200
             /\ LET f == parseMessagesQuery(req[p].query).value
                    lim == f.limit.x10 \div 10
                    off == f.offset.x10 \div 10
                    matching == OrderBy(SelectSeq(messages', LAMBDA r : Where(r, f)))
                IN  /\ resp'[p].total = Len(matching)
                    /\ resp'[p].data = MapRows(LimitOffset(matching, lim, off))
                    /\ Len(resp'[p].data) = Min(lim, Max(0, resp'[p].total - off))
      ]_vars


(***************************************************************************)
(* getStats                                                                *)
(***************************************************************************)
IsStats == ret.op = "getStats"

\* The unfiltered listing of every stored row.
Listing == listMessages(messages, Filters(Num(MaxLimit), Num(0), NULL, NULL, NULL)).data

\* C11: getStats returns total_messages = the number of stored rows,
\* senders_count = the number of distinct from values, first_message_ts and
\* last_message_ts = the ts of the first and of the last row of the unfiltered
\* listing, first <= last, and both NULL exactly when nothing is stored.
C11_StatsTotals ==
    IsStats =>
        /\ ret.stats.total_messages = Len(messages)
        /\ ret.stats.senders_count
             = Cardinality({messages[i].from_msisdn : i \in 1..Len(messages)})
        /\ (ret.stats.first_message_ts = NULL) = (messages = <<>>)
        /\ (ret.stats.last_message_ts = NULL) = (messages = <<>>)
        /\ messages # <<>> =>
             /\ ret.stats.first_message_ts = Listing[1].ts
             /\ ret.stats.last_message_ts = Listing[Len(Listing)].ts
             /\ TextLeq(ret.stats.first_message_ts, ret.stats.last_message_ts)

\* Statistics of a store whose first and last ts differ and whose last ts is
\* not that of the row inserted last, with fewer senders than rows.
C11_Witness ==
    /\ IsStats
    /\ Len(messages) >= 3
    /\ ret.stats.first_message_ts # ret.stats.last_message_ts
    /\ ret.stats.last_message_ts # messages[Len(messages)].ts
    /\ ret.stats.senders_count < ret.stats.total_messages
    /\ ret.stats.senders_count >= 2

Included(from) ==
    \E i \in 1..Len(ret.stats.messages_per_sender) :
        ret.stats.messages_per_sender[i].from = from

RowsFrom(from) == Cardinality({k \in 1..Len(messages) : messages[k].from_msisdn = from})

\* C12: messages_per_sender has min(10, senders_count) entries with distinct
\* from values, each count the number of stored rows with that from, counts
\* never increase along the list, and no sender left out has more rows than a
\* sender in the list.
C12_TopSenders ==
    IsStats =>
        LET mps == ret.stats.messages_per_sender IN
        /\ Len(mps) = Min(10, ret.stats.senders_count)
        /\ \A i, j \in 1..Len(mps) : mps[i].from = mps[j].from => i = j
        /\ \A i \in 1..Len(mps) : mps[i].count = RowsFrom(mps[i].from) /\ mps[i].count >= 1
        /\ \A i \in 1..(Len(mps) - 1) : mps[i].count >= mps[i + 1].count
        /\ \A k \in 1..Len(messages) :
             ~Included(messages[k].from_msisdn) =>
                \A i \in 1..Len(mps) : RowsFrom(messages[k].from_msisdn) <= mps[i].count

\* More than ten senders: the list holds ten, the eleventh sender by from has
\* two rows and is in the list, and a sender with one row is left out.
C12_Witness ==
    /\ IsStats
    /\ ret.stats.senders_count > 10
    /\ Len(ret.stats.messages_per_sender) = 10
    /\ ret.stats.messages_per_sender[1].count = 2
    /\ ret.stats.messages_per_sender[1].from = SenderOf(11)
    /\ \E k \in 1..Len(messages) : ~Included(messages[k].from_msisdn)


(***************************************************************************)
(* Metrics                                                                 *)
(***************************************************************************)
\* How many of the latencies observed so far are at most bound.
ObservedUpTo(bound) == Cardinality({j \in 1..Len(calls) : calls[j].ms <= bound})

\* C13: renderMetrics emits the bucket lines le=100, le=500, le=+Inf in this
\* order with values that never decrease; the first is the number of
\* observations <= 100 ms, the second the number <= 500 ms, and the third is
\* request_latency_ms_count, the number of all observations.
C13_CumulativeBuckets ==
    ret.op = "renderMetrics" =>
        LET b == ret.out.buckets IN
        /\ Len(b) = 3
        /\ b[1].le = "100" /\ b[2].le = "500" /\ b[3].le = "+Inf"
        /\ b[1].value <= b[2].value /\ b[2].value <= b[3].value
        /\ b[1].value = ObservedUpTo(100)
        /\ b[2].value = ObservedUpTo(500)
        /\ b[3].value = ret.out.count
        /\ ret.out.count = Len(calls)

\* A rendering after observations of exactly 100 and 500 ms and one above 500.
C13_Witness ==
    /\ ret.op = "renderMetrics"
    /\ \E i, j, k \in 1..Len(calls) :
          calls[i].ms = 100 /\ calls[j].ms = 500 /\ calls[k].ms > 500
    /\ ret.out.buckets[1].value >= 1
    /\ ret.out.buckets[2].value > ret.out.buckets[1].value
    /\ ret.out.buckets[3].value > ret.out.buckets[2].value


WebhookOutcomes ==
    {"created", "duplicate", "invalid_signature", "validation_error", "secret_missing", "error"}

\* C14: the step that answers a POST /webhook adds one to the
\* webhook_requests_total counter of the request's outcome, one of the six, in
\* the process that handled it, and changes no other counter of that family.
C14_OneResultPerRequest ==
    [][\A p \in Procs :
          (Responds(p) /\ req[p].path = "/webhook") =>
             /\ resp'[p].result \in WebhookOutcomes
             /\ webhookResults' =
                  [webhookResults EXCEPT ![p] = Incr(@, resp'[p].result)]
      ]_vars

\* C18: the step that answers a POST /webhook appends the row of its message
\* when the outcome is created and leaves the table as it was in every other
\* outcome; a request that changes the table is correctly signed and valid.
C18_OnlyCreatedWrites ==
    [][\A p \in Procs :
          (Responds(p) /\ req[p].path = "/webhook") =>
             /\ resp'[p].result = "created" =>
                   /\ Len(messages') = Len(messages) + 1
                   /\ SubSeq(messages', 1, Len(messages)) = messages
                   /\ messages'[Len(messages')].message_id
                        = JSONparse(req[p].rawBody).message_id
             /\ resp'[p].result # "created" => messages' = messages
             /\ messages' # messages => ValidSigned(req[p])
             /\ resp'[p].status \in {503, 401, 422, 500} => messages' = messages
      ]_vars

\* A request with a valid body and no signature was answered 401, and a valid
\* signed request whose insert failed was answered 500: neither message_id is
\* stored.
C18_Witness ==
    \E p, q \in Procs :
        /\ IsWebhookResponse(resp[p]) /\ IsWebhookResponse(resp[q])
        /\ resp[p].status = 401 /\ BodyOk(resp[p])
        /\ ~HasId(messages, IdOf(resp[p]))
        /\ resp[q].status = 500
        /\ ~HasId(messages, IdOf(resp[q]))


(***************************************************************************)
(* The service                                                             *)
(***************************************************************************)
Total(counter) == SumOver(counter, DOMAIN counter)

\* C15: the step that answers a request to /webhook, /messages or /stats adds
\* one to http_requests_total under the path and the status sent, and records
\* one latency, in the process that handled it; a step that answers nothing
\* records nothing.
C15_OneHttpCountPerRequest ==
    [][/\ \A p \in Procs :
            (Responds(p) /\ req[p].path \in {"/webhook", "/messages", "/stats"}) =>
               /\ httpRequests' = [httpRequests EXCEPT
                                     ![p] = Incr(@, <<req[p].path, resp'[p].status>>)]
               /\ latencyCount' = [latencyCount EXCEPT ![p] = @ + 1]
               /\ Total(latencyBuckets'[p]) = Total(latencyBuckets[p]) + 1
       /\ (\A p \in Procs : ~Responds(p)) =>
             /\ httpRequests' = httpRequests
             /\ latencyCount' = latencyCount
             /\ latencyBuckets' = latencyBuckets
      ]_vars

\* One process counted the 500 of a /stats request whose statement failed, the
\* other the 401 of an unsigned /webhook request.
C15_Witness ==
    \E p, q \in Procs :
        /\ resp[p].op = "GET /stats" /\ resp[p].status = 500
        /\ httpRequests[p] = (<<"/stats", 500>> :> 1)
        /\ IsWebhookResponse(resp[q]) /\ resp[q].status = 401
        /\ httpRequests[q] = (<<"/webhook", 401>> :> 1)
        /\ latencyCount[p] = 1 /\ latencyCount[q] = 1

\* C16: /health/ready answers 200 ready exactly when pingDb returned true and
\* a secret is configured, and else 503 not-ready with db = what pingDb
\* returned and secret = whether a secret is configured; /health/live answers
\* 200 always.
C16_Readiness ==
    \A p \in Procs :
        /\ resp[p].op = "GET /health/ready" =>
              IF resp[p].pinged /\ Truthy(webhookSecret)
              THEN resp[p].status = 200 /\ resp[p].body = "ready"
              ELSE /\ resp[p].status = 503 /\ resp[p].body = "not-ready"
                   /\ resp[p].db = resp[p].pinged
                   /\ resp[p].secret = Truthy(webhookSecret)
        /\ resp[p].op = "GET /health/live" =>
              resp[p].status = 200 /\ resp[p].body = "live"

\* With a secret configured, a readiness probe whose SELECT 1 failed answered
\* 503 with db false and secret true, and another one answered 200.
C16_Witness ==
    \E p, q \in Procs :
        /\ resp[p].op = "GET /health/ready" /\ resp[p].status = 503
        /\ ~resp[p].db /\ resp[p].secret
        /\ resp[q].op = "GET /health/ready" /\ resp[q].status = 200

\* C17: the step that answers a request, whatever its path, adds one to the
\* http_requests_total counters of the process that handled it.
C17_EveryPathCounted ==
    [][\A p \in Procs :
          Responds(p) => Total(httpRequests'[p]) = Total(httpRequests[p]) + 1
      ]_vars

\* Process p takes this step.
Acts(p) == pc'[p] # pc[p] \/ rows'[p] # rows[p] \/ resp'[p] # resp[p]

\* C19: every step keeps every stored row where it is and as it is, so the
\* number of rows never decreases; and a step of anything but the handler of
\* POST /webhook (listMessages, getStats, pingDb, renderMetrics in their
\* handlers) leaves the table unchanged.
C19_AppendOnly ==
    [][/\ Len(messages') >= Len(messages)
       /\ SubSeq(messages', 1, Len(messages)) = messages
       /\ StatTotal(messages') >= StatTotal(messages)
       /\ \A p \in Procs :
            (Acts(p) /\ (pc[p] = "idle" \/ req[p].path # "/webhook"))
               => messages' = messages
      ]_vars

\* A row was stored and then read by /stats or /messages in the other process.
C19_Witness ==
    \E p, q \in Procs :
        /\ Len(messages) = 1
        /\ IsWebhookResponse(resp[p]) /\ resp[p].result = "created"
        /\ \/ resp[q].op = "GET /stats" /\ resp[q].status = 200
                 /\ resp[q].stats.total_messages = 1
           \/ resp[q].op = "GET /messages" /\ resp[q].status = 200
                 /\ resp[q].total = 1

\* The states the table has been in: its prefixes.
PastTables == {SubSeq(messages, 1, n) : n \in 0..Len(messages)}

\* C20: the data and total of a GET /messages response are those of
\* listMessages on one past state of the table, and the statistics of a
\* GET /stats response are those of getStats on one past state of the table.
C20_OneSnapshot ==
    \A p \in Procs :
        /\ (resp[p].op = "GET /messages" /\ resp[p].status = 200) =>
              \E tbl \in PastTables :
                 LET r == listMessages(tbl, parseMessagesQuery(resp[p].request.query).value)
                 IN  r.data = resp[p].data /\ r.total = resp[p].total
        /\ (resp[p].op = "GET /stats" /\ resp[p].status = 200) =>
              \E tbl \in PastTables, tie \in TieOrders :
                 getStats(tbl, tie) = resp[p].stats

(***************************************************************************)
(* C21: pingDb never throws: in every state of the module, also before     *)
(* initDb has set the handle, a direct call returns a boolean, false when  *)
(* the storage cannot be reached; and GET /health/ready never answers      *)
(* with a failure of the handler instead of 200 or 503.                    *)
(***************************************************************************)
C21_PingNeverThrows ==
    /\ ret.op = "pingDb" =>
          /\ ~ret.threw
          /\ (~db.open => ret.value = FALSE)
    /\ \A p \in Procs :
          resp[p].op = "GET /health/ready" => resp[p].status \in {200, 503}

(***************************************************************************)
(* C23: initDb falls back instead of failing where the location cannot be  *)
(* opened (new Database(dbPath) throws): it then leaves an in-memory       *)
(* database in db, has logged the fallback, and throws nothing but an      *)
(* error the engine raised on CREATE TABLE.  Whenever initDb returns, for  *)
(* every URL, db is set and its database has table messages.  On a         *)
(* location that held a database with rows, it returns with these rows in  *)
(* the table and the file as it was.                                       *)
(***************************************************************************)
InitOn(c) == IF c.dbPath = MEMORY THEN [kind |-> "memory"] ELSE c.before[FileOf(c.dbPath)]

C23_InitFallsBack ==
    ret.op = "initDb" =>
       /\ InitOn(ret).kind = "unopenable" =>
             /\ db.open /\ db.filename = MEMORY
             /\ \E i \in 1..Len(ret.logged) : ret.logged[i] = FallbackLog
             /\ (ret.threw => ret.error \in EngineFaults)
       /\ ~ret.threw => db.open /\ "messages" \in db.tables
       /\ (~ret.threw /\ InitOn(ret).kind = "database" /\ InitOn(ret).rows # <<>>) =>
             /\ messages = InitOn(ret).rows
             /\ files[FileOf(ret.dbPath)] = InitOn(ret)
             /\ db.filename = ret.dbPath

\* A first initDb fell back to memory, and a later one met rows in its file
\* and kept them.
C23_Witness ==
    /\ Len(calls) >= 2
    /\ calls[1].op = "initDb" /\ InitOn(calls[1]).kind = "unopenable"
    /\ ~calls[1].threw /\ calls[1].openedAs = MEMORY
    /\ ret.op = "initDb" /\ ret = calls[Len(calls)] /\ ~ret.threw
    /\ InitOn(ret).kind = "database" /\ InitOn(ret).rows # <<>>
    /\ messages = InitOn(ret).rows

(***************************************************************************)
(* C22: the body of a 500 response of /webhook, /messages or /stats does   *)
(* not depend on the failure inside: any two such responses carry the same *)
(* body, and none carries the text of a storage error.                     *)
(***************************************************************************)
Failed(p) ==
    /\ resp[p].op \in {"POST /webhook", "GET /messages", "GET /stats"}
    /\ resp[p].status = 500

C22_GenericFailureBody ==
    \A p, q \in Procs :
        (Failed(p) /\ Failed(q)) =>
            /\ resp[p].body = resp[q].body
            /\ resp[p].body \notin EngineFaults

(***************************************************************************)
(* C24: every POST /webhook comes to one terminal outcome and one          *)
(* response.  The step that answers it sets one of the six outcomes, made  *)
(* each check at most once, called insertMessage at most once (one reading *)
(* of the clock, at most one new row), and ran finalize once with the      *)
(* status of the response just sent: one latency and one                   *)
(* http_requests_total increment.  No other step changes the response or   *)
(* the counters of a process.  Every request received is answered.         *)
(***************************************************************************)
C24_OneTerminalOutcome ==
    /\ [][\A p \in Procs :
            IF Responds(p) /\ req[p].path = "/webhook"
            THEN /\ resp'[p].result \in WebhookOutcomes
                 /\ \A i, j \in 1..Len(resp'[p].stages) :
                       resp'[p].stages[i] = resp'[p].stages[j] => i = j
                 /\ clock' \in {clock, clock + 1}
                 /\ Len(messages') \in {Len(messages), Len(messages) + 1}
                 /\ latencyCount'[p] = latencyCount[p] + 1
                 /\ httpRequests'[p] = Incr(httpRequests[p], <<"/webhook", resp'[p].status>>)
            ELSE /\ resp'[p] = resp[p]
                 /\ latencyCount'[p] = latencyCount[p]
                 /\ httpRequests'[p] = httpRequests[p]
        ]_vars
    /\ \A p \in Procs : (pc[p] = "received") ~> (pc[p] = "idle")

\* One request was answered 500 after its only insert failed, and another one
\* stored the row.
C24_Witness ==
    \E p, q \in Procs :
        /\ IsWebhookResponse(resp[p]) /\ resp[p].result = "error"
        /\ IsWebhookResponse(resp[q]) /\ resp[q].result = "created"
        /\ latencyCount[p] = 1 /\ latencyCount[q] = 1
        /\ Len(messages) = 1

(***************************************************************************)
(* C25: the created_at of every stored row is the time the server read     *)
(* when the insertMessage call that created the row ran, it has the strict *)
(* format of ts, YYYY-MM-DDTHH:MM:SSZ without fraction of a second, and no *)
(* later call with the same message_id has changed it.                     *)
(***************************************************************************)
C25_CreatedAtStrictFormat ==
    \A i \in 1..Len(messages) :
        /\ IsoUtc(messages[i].created_at)
        /\ \E j \in 1..Len(calls) :
              /\ calls[j].created
              /\ calls[j].message.message_id = messages[i].message_id
              /\ calls[j].at = messages[i].created_at
              /\ \A k \in 1..Len(calls) :
                    (calls[k].created
                     /\ calls[k].message.message_id = messages[i].message_id) => k = j

(***************************************************************************)
(* C26: in every state of a server process the http_requests_total         *)
(* counters sum to request_latency_ms_count, which is also the sum of the  *)
(* latency buckets; and no step takes a counter away or lowers one:        *)
(* http_requests_total, webhook_requests_total, the buckets, the latency   *)
(* count and the latency sum.                                              *)
(***************************************************************************)
NotLowered(before, after) ==
    \A k \in DOMAIN before : k \in DOMAIN after /\ after[k] >= before[k]

C26_CountersAgree ==
    /\ [](\A p \in Procs :
             /\ Total(httpRequests[p]) = latencyCount[p]
             /\ Total(latencyBuckets[p]) = latencyCount[p])
    /\ [][\A p \in Procs :
             /\ NotLowered(httpRequests[p], httpRequests'[p])
             /\ NotLowered(webhookResults[p], webhookResults'[p])
             /\ NotLowered(latencyBuckets[p], latencyBuckets'[p])
             /\ latencyCount'[p] >= latencyCount[p]
             /\ latencyTotal'[p] >= latencyTotal[p]
        ]_vars

\* A process has answered a request on an instrumented route, and a request to
\* a route without instrumentation has been answered as well.
C26_Witness ==
    \E p, q \in Procs :
        /\ latencyCount[p] = 1
        /\ Total(httpRequests[p]) = 1
        /\ resp[q].op \in {"GET /health/live", "GET /health/ready", "GET /metrics"}

(***************************************************************************)
(* C27: where one process alone has served the requests on a store that    *)
(* was empty at its start, webhook_requests_total{created} is the number   *)
(* of rows stored, and created plus duplicate is the number of /webhook    *)
(* requests counted in http_requests_total with status 200.                *)
(***************************************************************************)
CountAt(counter, key) == IF key \in DOMAIN counter THEN counter[key] ELSE 0

Alone(p) == \A q \in Procs \ {p} : latencyCount[q] = 0 /\ pc[q] = "idle"

C27_CreatedCountIsRows ==
    \A p \in Procs :
        Alone(p) =>
            /\ CountAt(webhookResults[p], "created") = Len(messages)
            /\ CountAt(webhookResults[p], "created")
                 + CountAt(webhookResults[p], "duplicate")
               = CountAt(httpRequests[p], <<"/webhook", 200>>)

\* One process alone has stored a row and answered a repeat of it.
C27_Witness ==
    \E p \in Procs :
        /\ Alone(p)
        /\ CountAt(webhookResults[p], "created") = 1
        /\ CountAt(webhookResults[p], "duplicate") = 1
        /\ Len(messages) = 1

=============================================================================
